---- MODULE Spec2Model ----
(***************************************************************************)
(* AtBus: request/response RPC over a message endpoint.                    *)
(*                                                                         *)
(* One AtBusClient (the requester) and one AtBusServer (the responder),    *)
(* each on its own endpoint of an unordered, lossy message medium.  Every  *)
(* action is one non-preemptible reaction of the single-threaded event     *)
(* loop: a public method call, a timer callback, an abort listener, the    *)
(* delivery of one envelope, or the settlement of one handler.             *)
(***************************************************************************)
EXTENDS Integers, Sequences, FiniteSets, TLC

(***************************************************************************)
(* Bounds of the model.                                                    *)
(***************************************************************************)
\* Number of calls the requester may register (identifiers 1..MaxCalls).
MaxCalls == 2

\* Payload ceiling the modelled requester and responder are configured with
\* (the maxPayloadBytes option), scaled down from the 2 MiB default.
SmallCeiling == 6

(***************************************************************************)
(* Program constants.                                                      *)
(***************************************************************************)
ATBUS_PROTOCOL_VERSION == 1

RouteNotFound == "ROUTE_NOT_FOUND"
Timeout == "TIMEOUT"
InternalError == "INTERNAL_ERROR"
InvalidMessage == "INVALID_MESSAGE"
PayloadTooLarge == "PAYLOAD_TOO_LARGE"
Forbidden == "FORBIDDEN"
ClientClosed == "CLIENT_CLOSED"
Cancelled == "CANCELLED"
TransportError == "TRANSPORT_ERROR"

AtBusErrorCode ==
  { RouteNotFound, Timeout, InternalError, InvalidMessage, PayloadTooLarge,
    Forbidden, ClientClosed, Cancelled, TransportError }

(***************************************************************************)
(* Values.  An absent optional field (JavaScript undefined) is Undefined;  *)
(* a value that is present but not a string is NotAString.  Routes and     *)
(* paths are sequences of characters; NoRoute is the absent route.         *)
(***************************************************************************)
Undefined == "<undefined>"
NotAString == "<number>"
NoRoute == <<"<undefined>">>
NoData == <<"<undefined>">>

\* JavaScript truthiness of an optional string.
Truthy(s) == s # Undefined /\ s # ""

Ids == 1..MaxCalls

(***************************************************************************)
(* Payloads.  A payload is a JSON string value, given as the sequence of   *)
(* its characters: "a" and "b" are ASCII letters, "e'" is a two-byte UTF-8 *)
(* letter, "q" is the double quote (JSON.stringify escapes it to two       *)
(* characters).  CyclicPayload is a value JSON.stringify throws on.        *)
(***************************************************************************)
CyclicPayload == <<"<cyclic>">>
Infinity == 1000000

RECURSIVE Utf8Length(_)
Utf8Length(chars) ==
  IF chars = <<>> THEN 0
  ELSE (CASE Head(chars) = "e'" -> 2
          [] Head(chars) = "q" -> 2
          [] OTHER -> 1) + Utf8Length(Tail(chars))

\* A size that counts the characters of the serialized text.
PayloadSizeChars(payload) ==
  IF payload = CyclicPayload THEN Infinity ELSE 2 + Len(payload)

\* payloadSizeBytes: the UTF-8 length of JSON.stringify(payload), the two
\* enclosing quotes included; Infinity when serialization throws.
PayloadSizeBytes(payload) ==
  IF payload = CyclicPayload THEN Infinity ELSE 2 + Utf8Length(payload)

RECURSIVE Letters(_, _)
Letters(c, n) == IF n <= 0 THEN <<>> ELSE <<c>> \o Letters(c, n - 1)

\* A one-letter payload, a payload of exactly the ceiling, and one with as many
\* characters as the latter but one byte more.
PayloadTiny == <<"a">>
PayloadAtCeiling == Letters("b", SmallCeiling - 2)
PayloadOverCeiling == Letters("b", SmallCeiling - 3) \o <<"e'">>
Payloads == { PayloadTiny, PayloadAtCeiling, PayloadOverCeiling }

(***************************************************************************)
(* Routes.                                                                 *)
(***************************************************************************)
RouteA == <<"/", "a">>
RouteB == <<"/", "b">>
RouteBad == <<"a">>
CallRoutes == { RouteA, RouteB, RouteBad }
Signals == {"none", "idle", "aborted"}

\* A pattern descriptor (a RegExp object) is
\* <<"<regexp>", anchoring, flags, lastIndex>> \o source: the anchoring is "^$"
\* (anchored at both ends), "^" (at the start only) or "" (not anchored), the
\* flags are "g" or "", lastIndex is a digit, and the source is a literal
\* character sequence.
Digits == <<"0", "1", "2", "3", "4", "5", "6", "7", "8", "9">>
Digit(n) == Digits[n + 1]
NumOf(d) == CHOOSE n \in 0..9 : Digits[n + 1] = d
RegExp(anchoring, flags, source) == <<"<regexp>", anchoring, flags, Digit(0)>> \o source
IsRegExp(route) == Len(route) >= 4 /\ route[1] = "<regexp>"
Anchoring(route) == route[2]
Global(route) == route[3] = "g"
LastIndex(route) == NumOf(route[4])
Source(route) == SubSeq(route, 5, Len(route))

StartsWith(s, c) == Len(s) >= 1 /\ s[1] = c

\* validateRoute: TRUE when it returns, FALSE when it throws.
ValidateRoute(route) == IsRegExp(route) \/ StartsWith(route, "/")

\* String.prototype.includes for one character.
Includes(s, c) == \E i \in 1..Len(s) : s[i] = c

\* s.split("/") without the filter: empty segments are kept.
RECURSIVE SplitPartsAll(_, _)
SplitPartsAll(s, cur) ==
  IF s = <<>> THEN <<cur>>
  ELSE IF Head(s) = "/"
       THEN <<cur>> \o SplitPartsAll(Tail(s), <<>>)
       ELSE SplitPartsAll(Tail(s), Append(cur, Head(s)))

\* s.split("/").filter(Boolean): the non-empty '/'-delimited segments.
RECURSIVE SplitParts(_, _)
SplitParts(s, cur) ==
  IF s = <<>> THEN (IF cur = <<>> THEN <<>> ELSE <<cur>>)
  ELSE IF Head(s) = "/"
       THEN (IF cur = <<>> THEN <<>> ELSE <<cur>>) \o SplitParts(Tail(s), <<>>)
       ELSE SplitParts(Tail(s), Append(cur, Head(s)))

\* The positions (from 0) at which RegExp.prototype.test may find the pattern
\* in url: the search starts at lastIndex when the pattern has the g flag and
\* at 0 otherwise.
MatchPositions(route, url) ==
  LET source == Source(route)
      from == IF Global(route) THEN LastIndex(route) ELSE 0
  IN  { i \in from..(Len(url) - Len(source)) :
          /\ SubSeq(url, i + 1, i + Len(source)) = source
          /\ Anchoring(route) \in {"^", "^$"} => i = 0
          /\ Anchoring(route) = "^$" => i + Len(source) = Len(url) }

\* route.test(url): the value it returns.
RegExpTest(route, url) == MatchPositions(route, url) # {}

\* route.test(url): the pattern object after the call.  With the g flag a
\* match leaves lastIndex at its end and a failure leaves it at 0.
AfterTest(route, url) ==
  IF ~IsRegExp(route) \/ ~Global(route) THEN route
  ELSE LET hits == MatchPositions(route, url)
       IN  IF hits = {} THEN [route EXCEPT ![4] = Digit(0)]
           ELSE LET first == CHOOSE i \in hits : \A j \in hits : i <= j
                IN  [route EXCEPT ![4] = Digit(first + Len(Source(route)))]

NoMatch == [matched |-> FALSE, params |-> {}]
Match(params) == [matched |-> TRUE, params |-> params]

\* The key "__proto__".  params is an object literal, and an assignment of a
\* string to that key of an ordinary object runs the inherited setter, which
\* ignores a value that is neither an object nor null: it stores nothing.
ProtoKey == <<"_", "_", "p", "r", "o", "t", "o", "_", "_">>

\* params[key] = urlPart
Assigned(params, key, urlPart) ==
  IF key = ProtoKey THEN params
  ELSE {b \in params : b[1] # key} \cup {<<key, urlPart>>}

\* The loop of matchRoute over the segments from position i on; params is the
\* set of <<key, value>> bindings, a later binding of a key replacing an
\* earlier one.
RECURSIVE MatchParts(_, _, _, _)
MatchParts(routeParts, urlParts, i, params) ==
  IF i > Len(routeParts) THEN Match(params)
  ELSE LET routePart == routeParts[i]
           urlPart == urlParts[i]
       IN  IF StartsWith(routePart, ":")
           THEN LET key == Tail(routePart)
                IN  IF key = <<>> THEN NoMatch
                    ELSE MatchParts(routeParts, urlParts, i + 1,
                                    Assigned(params, key, urlPart))
           ELSE IF routePart # urlPart THEN NoMatch
                ELSE MatchParts(routeParts, urlParts, i + 1, params)

MatchRoute(route, url) ==
  IF IsRegExp(route)
  THEN (IF RegExpTest(route, url) THEN Match({}) ELSE NoMatch)
  ELSE IF ~Includes(route, ":")
       THEN (IF route = url THEN Match({}) ELSE NoMatch)
       ELSE LET routeParts == SplitParts(route, <<>>)
                urlParts == SplitParts(url, <<>>)
            IN  IF Len(routeParts) # Len(urlParts) THEN NoMatch
                ELSE MatchParts(routeParts, urlParts, 1, {})

(***************************************************************************)
(* Error Mapper.  A raw failure (a thrown or rejected value) is            *)
(* [object, code, retriable, route]: whether it is a non-null object, and  *)
(* its code, retriable and route fields (Undefined when absent, NotAString *)
(* for a code that is not a string; retriable is "true" or "false" when it *)
(* is a boolean).  The message and details fields are not modelled.        *)
(***************************************************************************)
RawError(code, retriable) ==
  [object |-> TRUE, code |-> code, retriable |-> retriable, route |-> NoRoute]
PlainError == RawError(Undefined, Undefined)
Primitive == [object |-> FALSE, code |-> Undefined, retriable |-> Undefined,
              route |-> NoRoute]
\* What a throwing postMessage throws: a DOMException, whose legacy code field
\* is a number.
DataCloneError == RawError(NotAString, Undefined)

\* A normalization that keeps every string.
NormalizeErrorCodeVerbatim(value) ==
  IF value \in {Undefined, NotAString} THEN InternalError ELSE value

NormalizeErrorCode(value) ==
  IF value \in {Undefined, NotAString} THEN InternalError
  ELSE IF value \in AtBusErrorCode THEN value
  ELSE InternalError

ErrorRecord(code, route, retriable) ==
  [code |-> code, route |-> route, retriable |-> retriable]

\* A mapper that keeps the route field of the raw failure when it has one.
MapErrorKeepsRoute(error, route) ==
  IF error.object
  THEN LET code == NormalizeErrorCode(error.code)
           retriable == IF error.retriable \in {"true", "false"}
                        THEN error.retriable = "true"
                        ELSE code = Timeout \/ code = TransportError
       IN  ErrorRecord(code, IF error.route = NoRoute THEN route ELSE error.route,
                       retriable)
  ELSE ErrorRecord(InternalError, route, FALSE)

MapError(error, route) ==
  IF error.object
  THEN LET code == NormalizeErrorCode(error.code)
           retriable == IF error.retriable \in {"true", "false"}
                        THEN error.retriable = "true"
                        ELSE code = Timeout \/ code = TransportError
       IN  ErrorRecord(code, route, retriable)
  ELSE ErrorRecord(InternalError, route, FALSE)

(***************************************************************************)
(* Envelopes.                                                              *)
(***************************************************************************)
RequestEnvelope(id, route, payload, sourceId, targetId, bus) ==
  [v |-> ATBUS_PROTOCOL_VERSION, type |-> "atbus:request", id |-> id,
   route |-> route, payload |-> payload,
   sourceId |-> sourceId, targetId |-> targetId, bus |-> bus]

CancelEnvelope(id, sourceId, targetId, bus) ==
  [v |-> ATBUS_PROTOCOL_VERSION, type |-> "atbus:cancel", id |-> id,
   sourceId |-> sourceId, targetId |-> targetId, bus |-> bus]

SuccessEnvelope(id, data, sourceId, targetId, bus) ==
  [v |-> ATBUS_PROTOCOL_VERSION, type |-> "atbus:response", id |-> id,
   ok |-> TRUE, data |-> data,
   sourceId |-> sourceId, targetId |-> targetId, bus |-> bus]

FailureEnvelope(id, error, sourceId, targetId, bus) ==
  [v |-> ATBUS_PROTOCOL_VERSION, type |-> "atbus:response", id |-> id,
   ok |-> FALSE, error |-> error,
   sourceId |-> sourceId, targetId |-> targetId, bus |-> bus]

\* A Cancel guard that does not look at the version.
IsAtBusCancelAnyVersion(value) == value.type = "atbus:cancel"

\* The guards look at the version and the kind tag; every envelope of the
\* model has a string identifier and string-or-absent addressing fields, a
\* success carries data and a failure a record with a string code.
IsAtBusResponse(value) ==
  value.v = ATBUS_PROTOCOL_VERSION /\ value.type = "atbus:response"
IsAtBusRequest(value) ==
  value.v = ATBUS_PROTOCOL_VERSION /\ value.type = "atbus:request"
IsAtBusCancel(value) ==
  value.v = ATBUS_PROTOCOL_VERSION /\ value.type = "atbus:cancel"

(***************************************************************************)
(* Promises.  A call's promise is pending, resolved with data, or rejected *)
(* with an AtBusRemoteError; NoPromise is the promise of a call not yet    *)
(* made.  Local is the request id "local" of an error raised before an     *)
(* identifier was generated.                                               *)
(***************************************************************************)
Local == 0
NoPromise == [st |-> "none"]
PendingPromise == [st |-> "pending"]
Resolved(data) == [st |-> "resolved", data |-> data]
\* new AtBusRemoteError(error, requestId)
AtBusRemoteError(error, requestId) ==
  [st |-> "rejected", code |-> error.code, route |-> error.route,
   retriable |-> error.retriable, requestId |-> requestId]

\* A completion cell that takes whatever the latest resolve or reject passes.
SettleLastWins(promise, outcome) == outcome

\* resolve(value) or reject(reason) on a promise: the first call settles it,
\* a later call has no effect.
Settle(promise, outcome) ==
  IF promise.st = "pending" THEN outcome ELSE promise

(***************************************************************************)
(* State.                                                                  *)
(***************************************************************************)
VARIABLES
  cfg,         \* the options the client and the server were constructed with
  \* AtBusClient
  cStarted,    \* #started
  cClosed,     \* #closed
  cEndpoint,   \* the client's endpoint: onmessage attached, start() and close() calls
  nextId,      \* the next identifier crypto.randomUUID() returns
  pending,     \* keys of #pending
  timers,      \* identifiers whose setTimeout timer is armed
  promise,     \* the promise call() returned, by identifier
  args,        \* the route, payload and signal option of each registered call
  aborted,     \* identifiers whose abort signal is in the aborted state
  listening,   \* identifiers whose onAbort listener is registered on the signal
  log,         \* by identifier, the postMessage calls and completion transitions, in order
  lastCall,    \* what the latest call() did
  \* the medium
  toServer,    \* envelopes posted by the client, not yet delivered
  toClient,    \* envelopes posted by the server, not yet delivered
  \* AtBusServer
  sStarted,    \* #started
  sClosed,     \* #closed
  sEndpoint,   \* the server's endpoint
  routes,      \* #routes
  inFlight,    \* #inFlight: identifier -> index of the execution whose controller it holds
  execs,       \* by identifier, the handler executions started for it, in order
  replies      \* by identifier, the number of Response envelopes the server posted

clientVars == <<cStarted, cClosed, cEndpoint, nextId, pending, timers, promise,
                args, aborted, listening, log, lastCall>>
serverVars == <<sStarted, sClosed, sEndpoint, routes, inFlight, execs, replies>>
vars == <<cfg, clientVars, toServer, toClient, serverVars>>

NewEndpoint == [onmessage |-> FALSE, starts |-> 0, closes |-> 0]
NoArgs == [route |-> NoRoute, payload |-> NoData, signal |-> "none"]

\* The start() method's effect on an endpoint.
Attach(endpoint) == [endpoint EXCEPT !.onmessage = TRUE, !.starts = @ + 1]
\* The effect of stop() on an endpoint: handler detached, close() called.
DetachAndClose(endpoint) ==
  [endpoint EXCEPT !.onmessage = FALSE, !.closes = @ + 1]

(***************************************************************************)
(* Log entries.                                                            *)
(***************************************************************************)
\* postMessage was called with an envelope of this kind (whether or not it
\* threw).
Posted(kind) == [ev |-> "post", kind |-> kind]
Transition(name, outcome) == [ev |-> name, out |-> outcome]
Transitions == {"response", "timeout", "abort", "sendfail", "stop"}

(***************************************************************************)
(* AtBusClient                                                             *)
(***************************************************************************)
\* What postMessage puts on the medium: nothing when it throws, and nothing
\* once the endpoint has been closed.
ClientPost(envelope, throws) ==
  IF throws \/ cEndpoint.closes > 0 THEN {} ELSE {envelope}

\* The envelope #sendCancel builds.
Cancel(id) == CancelEnvelope(id, cfg.clientId, cfg.targetId, cfg.cBus)

\* start(), as the update of #started and the endpoint.
ClientStartBody ==
  IF cClosed \/ cStarted
  THEN UNCHANGED <<cStarted, cEndpoint>>
  ELSE /\ cEndpoint' = Attach(cEndpoint)
       /\ cStarted' = TRUE

ClientStart ==
  /\ ClientStartBody
  /\ UNCHANGED <<cfg, cClosed, nextId, pending, timers, promise, args, aborted,
                 listening, log, lastCall, toServer, toClient, serverVars>>

LocalRejection(code, route) ==
  [kind |-> "rejected",
   promise |-> AtBusRemoteError(ErrorRecord(code, route, FALSE), Local)]

\* call() on a closed client.
RejectClosed(route) ==
  /\ lastCall' = LocalRejection(ClientClosed, route)
  /\ UNCHANGED <<cfg, cStarted, cClosed, cEndpoint, nextId, pending, timers,
                 promise, args, aborted, listening, log,
                 toServer, toClient, serverVars>>

\* The rejection of the catch block around postMessage(request).
TransportFailure(id, route) ==
  AtBusRemoteError(ErrorRecord(TransportError, route, TRUE), id)

\* An abort rejection flagged retriable.
CancelledErrorRetriable(id, route) ==
  AtBusRemoteError(ErrorRecord(Cancelled, route, TRUE), id)

\* The rejection of onAbort.
CancelledError(id, route) ==
  AtBusRemoteError(ErrorRecord(Cancelled, route, FALSE), id)

\* A catch block that rejects but leaves the timer armed and the entry in
\* the table.
SendFailedEntryKept(id, route) ==
  /\ timers' = timers \cup {id}
  /\ pending' = pending \cup {id}
  /\ promise' = [promise EXCEPT ![id] =
                   Settle(PendingPromise, TransportFailure(id, route))]
  /\ log' = [log EXCEPT ![id] =
               <<Posted("request"),
                 Transition("sendfail", TransportFailure(id, route))>>]
  /\ UNCHANGED <<listening, toServer>>

\* The promise executor when postMessage(request) throws: the catch block
\* clears the timer, deletes the entry, rejects and returns.
SendFailed(id, route) ==
  /\ timers' = (timers \cup {id}) \ {id}
  /\ pending' = (pending \cup {id}) \ {id}
  /\ promise' = [promise EXCEPT ![id] =
                   Settle(PendingPromise, TransportFailure(id, route))]
  /\ log' = [log EXCEPT ![id] =
               <<Posted("request"),
                 Transition("sendfail", TransportFailure(id, route))>>]
  /\ UNCHANGED <<listening, toServer>>

\* A promise executor that looks at the signal before it posts anything, and
\* rejects without posting when the signal is already aborted.
AbortedBeforePost(id, request, cancelThrows) ==
  /\ promise' = [promise EXCEPT ![id] =
                   Settle(PendingPromise, CancelledError(id, request.route))]
  /\ log' = [log EXCEPT ![id] =
               <<Transition("abort", CancelledError(id, request.route))>>]
  /\ UNCHANGED <<timers, pending, toServer, listening>>

\* The promise executor when the signal is already aborted: the Request is
\* posted, then onAbort() runs inside call().
AbortedAtCall(id, request, cancelThrows) ==
  /\ timers' = (timers \cup {id}) \ {id}
  /\ pending' = (pending \cup {id}) \ {id}
  /\ toServer' = toServer \cup ClientPost(request, FALSE)
                          \cup ClientPost(CancelEnvelope(id, cfg.clientId,
                                            cfg.targetId, cfg.cBus), cancelThrows)
  /\ promise' = [promise EXCEPT ![id] =
                   Settle(PendingPromise, CancelledError(id, request.route))]
  /\ log' = [log EXCEPT ![id] =
               <<Posted("request"), Posted("cancel"),
                 Transition("abort", CancelledError(id, request.route))>>]
  /\ UNCHANGED listening

\* A promise executor that registers the entry and arms no timer.
ArmedWithoutTimer(id, request, signal) ==
  /\ timers' = timers
  /\ pending' = pending \cup {id}
  /\ toServer' = toServer \cup ClientPost(request, FALSE)
  /\ promise' = [promise EXCEPT ![id] = PendingPromise]
  /\ log' = [log EXCEPT ![id] = <<Posted("request")>>]
  /\ listening' = IF signal = "idle" THEN listening \cup {id} ELSE listening

\* The promise executor otherwise: timer armed, entry registered, Request
\* posted, onAbort registered on the signal when there is one.
Armed(id, request, signal) ==
  /\ timers' = timers \cup {id}
  /\ pending' = pending \cup {id}
  /\ toServer' = toServer \cup ClientPost(request, FALSE)
  /\ promise' = [promise EXCEPT ![id] = PendingPromise]
  /\ log' = [log EXCEPT ![id] = <<Posted("request")>>]
  /\ listening' = IF signal = "idle" THEN listening \cup {id} ELSE listening

\* call() on a client that is not closed.
CallOpen(route, payload, signal, requestThrows, cancelThrows) ==
  LET id == nextId
      request == RequestEnvelope(id, route, payload,
                                 cfg.clientId, cfg.targetId, cfg.cBus)
  IN
  /\ ClientStartBody
  /\ IF ~ValidateRoute(route)
     THEN /\ lastCall' = [kind |-> "threw"]
          /\ UNCHANGED <<nextId, pending, timers, promise, args, aborted,
                         listening, log, toServer>>
     ELSE IF PayloadSizeBytes(payload) > cfg.cMaxPayloadBytes
     THEN /\ lastCall' = LocalRejection(PayloadTooLarge, route)
          /\ UNCHANGED <<nextId, pending, timers, promise, args, aborted,
                         listening, log, toServer>>
     ELSE /\ id <= MaxCalls
          /\ nextId' = id + 1
          /\ lastCall' = [kind |-> "registered", id |-> id]
          /\ args' = [args EXCEPT ![id] =
                        [route |-> route, payload |-> payload, signal |-> signal]]
          /\ aborted' = IF signal = "aborted" THEN aborted \cup {id} ELSE aborted
          /\ IF requestThrows THEN SendFailed(id, route)
             ELSE IF signal = "aborted" THEN AbortedAtCall(id, request, cancelThrows)
             ELSE Armed(id, request, signal)
  /\ UNCHANGED <<cfg, cClosed, toClient, serverVars>>

\* call() without the closed check.
CallUnguarded(route, payload, signal, requestThrows, cancelThrows) ==
  CallOpen(route, payload, signal, requestThrows, cancelThrows)

\* call(route, payload, {signal}): signal is "none" (no signal passed), "idle"
\* (a signal not yet aborted) or "aborted" (a signal already aborted);
\* requestThrows and cancelThrows say whether postMessage throws on the
\* Request and on the Cancel envelope.
Call(route, payload, signal, requestThrows, cancelThrows) ==
  IF cClosed THEN RejectClosed(route)
  ELSE CallOpen(route, payload, signal, requestThrows, cancelThrows)

\* A timeout rejection that is not flagged retriable.
TimeoutErrorNotRetriable(id) ==
  AtBusRemoteError(ErrorRecord(Timeout, args[id].route, FALSE), id)

\* The rejection of the timeout callback.
TimeoutError(id) ==
  AtBusRemoteError(ErrorRecord(Timeout, args[id].route, TRUE), id)

\* The timeout callback of call id fires.
ClientTimeout(id, cancelThrows) ==
  /\ id \in timers
  /\ timers' = timers \ {id}
  /\ pending' = pending \ {id}
  /\ toServer' = toServer \cup ClientPost(Cancel(id), cancelThrows)
  /\ promise' = [promise EXCEPT ![id] = Settle(@, TimeoutError(id))]
  /\ log' = [log EXCEPT ![id] = @ \o <<Posted("cancel"),
                                        Transition("timeout", TimeoutError(id))>>]
  /\ UNCHANGED <<cfg, cStarted, cClosed, cEndpoint, nextId, args, aborted,
                 listening, lastCall, toClient, serverVars>>

\* The caller aborts the signal it passed to call id; onAbort runs when it is
\* registered (with {once: true}; settling the call does not remove it).
AbortSignal(id, cancelThrows) ==
  /\ args[id].signal = "idle"
  /\ id \notin aborted
  /\ aborted' = aborted \cup {id}
  /\ IF id \in listening
     THEN /\ listening' = listening \ {id}
          /\ timers' = timers \ {id}
          /\ pending' = pending \ {id}
          /\ toServer' = toServer \cup ClientPost(Cancel(id), cancelThrows)
          /\ promise' = [promise EXCEPT ![id] = Settle(@, CancelledError(id, args[id].route))]
          /\ log' = [log EXCEPT ![id] = @ \o <<Posted("cancel"),
                                                Transition("abort", CancelledError(id, args[id].route))>>]
     ELSE UNCHANGED <<listening, timers, pending, toServer, promise, log>>
  /\ UNCHANGED <<cfg, cStarted, cClosed, cEndpoint, nextId, args, lastCall,
                 toClient, serverVars>>

\* A filter without the check of the response's source.
ClientAcceptsFromAnyone(response) ==
  /\ ~(Truthy(response.targetId) /\ response.targetId # cfg.clientId)
  /\ ~(Truthy(cfg.cBus) /\ Truthy(response.bus) /\ response.bus # cfg.cBus)

\* The three addressing checks of #handleMessage: TRUE when the response is
\* not ignored.
ClientAccepts(response) ==
  /\ ~(Truthy(response.targetId) /\ response.targetId # cfg.clientId)
  /\ ~(Truthy(cfg.targetId) /\ Truthy(response.sourceId)
         /\ response.sourceId # cfg.targetId)
  /\ ~(Truthy(cfg.cBus) /\ Truthy(response.bus) /\ response.bus # cfg.cBus)

\* What #handleMessage passes to resolve or reject.
ResponseOutcome(response) ==
  IF response.ok THEN Resolved(response.data)
  ELSE AtBusRemoteError(response.error, response.id)

\* #handleMessage looking up the oldest pending entry instead of the entry of
\* the response's identifier.
HandleMessageOldest(data) ==
  IF /\ IsAtBusResponse(data)
     /\ ClientAccepts(data)
     /\ pending # {}
  THEN LET id == CHOOSE i \in pending : \A j \in pending : i <= j
       IN  /\ timers' = timers \ {id}
           /\ pending' = pending \ {id}
           /\ promise' = [promise EXCEPT ![id] = Settle(@, ResponseOutcome(data))]
           /\ log' = [log EXCEPT ![id] =
                        Append(@, Transition("response", ResponseOutcome(data)))]
  ELSE UNCHANGED <<timers, pending, promise, log>>

\* #handleMessage without clearTimeout.
HandleMessageTimerKept(data) ==
  IF /\ IsAtBusResponse(data)
     /\ ClientAccepts(data)
     /\ data.id \in pending
  THEN /\ timers' = timers
       /\ pending' = pending \ {data.id}
       /\ promise' = [promise EXCEPT ![data.id] = Settle(@, ResponseOutcome(data))]
       /\ log' = [log EXCEPT ![data.id] =
                    Append(@, Transition("response", ResponseOutcome(data)))]
  ELSE UNCHANGED <<timers, pending, promise, log>>

\* #handleMessage rejecting or resolving without looking the entry up.
HandleMessageUnchecked(data) ==
  IF /\ IsAtBusResponse(data)
     /\ ClientAccepts(data)
  THEN /\ timers' = timers \ {data.id}
       /\ pending' = pending \ {data.id}
       /\ promise' = [promise EXCEPT ![data.id] = Settle(@, ResponseOutcome(data))]
       /\ log' = [log EXCEPT ![data.id] =
                    Append(@, Transition("response", ResponseOutcome(data)))]
  ELSE UNCHANGED <<timers, pending, promise, log>>

\* #handleMessage(data)
HandleMessage(data) ==
  IF /\ IsAtBusResponse(data)
     /\ ClientAccepts(data)
     /\ data.id \in pending
  THEN /\ timers' = timers \ {data.id}
       /\ pending' = pending \ {data.id}
       /\ promise' = [promise EXCEPT ![data.id] = Settle(@, ResponseOutcome(data))]
       /\ log' = [log EXCEPT ![data.id] =
                    Append(@, Transition("response", ResponseOutcome(data)))]
  ELSE UNCHANGED <<timers, pending, promise, log>>

\* The medium delivers one envelope to the client's onmessage handler.
ClientReceive(envelope) ==
  /\ envelope \in toClient
  /\ cEndpoint.onmessage
  /\ toClient' = toClient \ {envelope}
  /\ HandleMessage(envelope)
  /\ UNCHANGED <<cfg, cStarted, cClosed, cEndpoint, nextId, args, aborted,
                 listening, lastCall, toServer, serverVars>>

\* A stop() rejection flagged retriable.
ClosedErrorRetriable(id) ==
  AtBusRemoteError(ErrorRecord(ClientClosed, NoRoute, TRUE), id)

\* The rejection of stop().
ClosedError(id) ==
  AtBusRemoteError(ErrorRecord(ClientClosed, NoRoute, FALSE), id)

\* stop() past its closed check: throwing is the set of pending identifiers
\* whose Cancel envelope postMessage throws on.
StopBody(throwing) ==
  /\ throwing \subseteq pending
  /\ cClosed' = TRUE
  /\ cStarted' = FALSE
  /\ timers' = timers \ pending
  /\ toServer' = toServer \cup
       UNION { ClientPost(Cancel(id), id \in throwing) : id \in pending }
  /\ promise' = [id \in Ids |->
                   IF id \in pending THEN Settle(promise[id], ClosedError(id))
                   ELSE promise[id]]
  /\ log' = [id \in Ids |->
               IF id \in pending
               THEN log[id] \o <<Posted("cancel"),
                                 Transition("stop", ClosedError(id))>>
               ELSE log[id]]
  /\ pending' = {}
  /\ cEndpoint' = DetachAndClose(cEndpoint)
  /\ UNCHANGED <<cfg, nextId, args, aborted, listening, lastCall,
                 toClient, serverVars>>

\* stop() without the closed check.
ClientStopUnguarded(throwing) == StopBody(throwing)

\* stop(reason)
ClientStop(throwing) ==
  IF cClosed THEN UNCHANGED vars ELSE StopBody(throwing)

\* close()
ClientClose(throwing) == ClientStop(throwing)

(***************************************************************************)
(* AtBusServer                                                             *)
(***************************************************************************)
\* Routes the model registers, and the bound on the route table.
MaxRoutes == 1
RouteChoices == { RouteA }

\* String(route): the matchedRoute a handler is given (a pattern's text does
\* not show its lastIndex).
RouteString(route) ==
  IF IsRegExp(route) THEN [route EXCEPT ![4] = Digit(0)] ELSE route

\* The route table after matchRoute has been called on every entry.
Tested(table, url) == [i \in 1..Len(table) |-> AfterTest(table[i], url)]

\* A filter without the self-source rule.
MatchesAddressingFromAnyone(sourceId, targetId, bus) ==
  IF Truthy(targetId) /\ targetId # cfg.serverId THEN FALSE
  ELSE IF ~Truthy(targetId) /\ ~cfg.acceptUnaddressed THEN FALSE
  ELSE IF Truthy(cfg.sBus) /\ Truthy(bus) /\ bus # cfg.sBus THEN FALSE
  ELSE IF ~Truthy(cfg.sBus) /\ Truthy(bus) THEN FALSE
  ELSE TRUE

\* A filter in which a bus-scoped responder refuses bus-less messages.
MatchesAddressingSameBus(sourceId, targetId, bus) ==
  IF Truthy(sourceId) /\ sourceId = cfg.serverId THEN FALSE
  ELSE IF Truthy(targetId) /\ targetId # cfg.serverId THEN FALSE
  ELSE IF ~Truthy(targetId) /\ ~cfg.acceptUnaddressed THEN FALSE
  ELSE IF Truthy(cfg.sBus) /\ bus # cfg.sBus THEN FALSE
  ELSE IF ~Truthy(cfg.sBus) /\ Truthy(bus) THEN FALSE
  ELSE TRUE

\* A filter in which a responder without a bus takes messages of any bus.
MatchesAddressingAnyBus(sourceId, targetId, bus) ==
  IF Truthy(sourceId) /\ sourceId = cfg.serverId THEN FALSE
  ELSE IF Truthy(targetId) /\ targetId # cfg.serverId THEN FALSE
  ELSE IF ~Truthy(targetId) /\ ~cfg.acceptUnaddressed THEN FALSE
  ELSE IF Truthy(cfg.sBus) /\ Truthy(bus) /\ bus # cfg.sBus THEN FALSE
  ELSE TRUE

\* #matchesAddressing(sourceId, targetId, bus)
MatchesAddressing(sourceId, targetId, bus) ==
  IF Truthy(sourceId) /\ sourceId = cfg.serverId THEN FALSE
  ELSE IF Truthy(targetId) /\ targetId # cfg.serverId THEN FALSE
  ELSE IF ~Truthy(targetId) /\ ~cfg.acceptUnaddressed THEN FALSE
  ELSE IF Truthy(cfg.sBus) /\ Truthy(bus) /\ bus # cfg.sBus THEN FALSE
  ELSE IF ~Truthy(cfg.sBus) /\ Truthy(bus) THEN FALSE
  ELSE TRUE

\* A permission check that lets a route through when a registered route
\* matches it.
RefusedUnlessRegistered(route) ==
  /\ cfg.hasCanHandle
  /\ route \notin cfg.allowed
  /\ \A i \in 1..Len(routes) : ~MatchRoute(routes[i], route).matched

\* this.#canHandle && !this.#canHandle(route)
Refused(route) == cfg.hasCanHandle /\ route \notin cfg.allowed

\* A search that keeps the last entry matchRoute accepts.
LastMatch(table, url) ==
  LET hits == { i \in 1..Len(table) : MatchRoute(table[i], url).matched }
  IN  IF hits = {} THEN 0
      ELSE CHOOSE i \in hits : \A j \in hits : i >= j

\* A search that falls back on the first entry when matchRoute accepts none.
FirstMatchOrFirst(table, url) ==
  LET hits == { i \in 1..Len(table) : MatchRoute(table[i], url).matched }
  IN  IF hits = {} THEN (IF table = <<>> THEN 0 ELSE 1)
      ELSE CHOOSE i \in hits : \A j \in hits : i <= j

\* The index in the route table of the first entry matchRoute accepts, 0 when
\* there is none (the .map(...).find(...) of #handleEnvelope).
FirstMatch(table, url) ==
  LET hits == { i \in 1..Len(table) : MatchRoute(table[i], url).matched }
  IN  IF hits = {} THEN 0
      ELSE CHOOSE i \in hits : \A j \in hits : i <= j

\* A reply bus without the fallback.
ReplyBusOfRequest(request) == request.bus

\* request.bus ?? this.#bus
ReplyBus(request) == IF request.bus = Undefined THEN cfg.sBus ELSE request.bus

\* What #send puts on the medium: nothing once closed, nothing when
\* postMessage throws.
ServerPost(response, throws) ==
  IF sClosed \/ throws THEN {} ELSE {response}

\* A refusal flagged retriable.
SendFailureRetriable(id, code, route, targetId, bus) ==
  FailureEnvelope(id, ErrorRecord(code, route, TRUE), cfg.serverId, targetId, bus)

\* #sendFailure(id, error, targetId, bus), as the envelope it hands to #send.
SendFailure(id, code, route, targetId, bus) ==
  FailureEnvelope(id, ErrorRecord(code, route, FALSE), cfg.serverId, targetId, bus)

\* A Cancel branch that aborts every execution the table holds.
AbortInFlightAll(id) ==
  [i \in Ids |->
     IF inFlight[i] = 0 THEN execs[i]
     ELSE [execs[i] EXCEPT ![inFlight[i]].aborted = TRUE]]

\* A Cancel branch that looks the execution up and does not abort it.
AbortInFlightSkipped(id) == execs

\* A Cancel branch that aborts the latest execution of the identifier, in
\* flight or not.
AbortInFlightLatest(id) ==
  IF execs[id] = <<>> THEN execs
  ELSE [execs EXCEPT ![id][Len(execs[id])].aborted = TRUE]

\* this.#inFlight.get(id)?.abort()
AbortInFlight(id) ==
  IF inFlight[id] = 0 THEN execs
  ELSE [execs EXCEPT ![id][inFlight[id]].aborted = TRUE]

\* A start() that looks at #started only.
ServerStartUnguarded ==
  /\ IF sStarted
     THEN UNCHANGED <<sStarted, sEndpoint>>
     ELSE /\ sEndpoint' = Attach(sEndpoint)
          /\ sStarted' = TRUE
  /\ UNCHANGED <<cfg, clientVars, toServer, toClient, sClosed, routes,
                 inFlight, execs, replies>>

\* start()
ServerStart ==
  /\ IF sClosed \/ sStarted
     THEN UNCHANGED <<sStarted, sEndpoint>>
     ELSE /\ sEndpoint' = Attach(sEndpoint)
          /\ sStarted' = TRUE
  /\ UNCHANGED <<cfg, clientVars, toServer, toClient, sClosed, routes,
                 inFlight, execs, replies>>

\* at(route, handler)
At(route) ==
  /\ ValidateRoute(route)
  /\ routes' = Append(routes, route)
  /\ UNCHANGED <<cfg, clientVars, toServer, toClient, sStarted, sClosed,
                 sEndpoint, inFlight, execs, replies>>

\* A reply of #handleEnvelope made before any handler runs.
Refusal(request, code, throws) ==
  LET reply == SendFailure(request.id, code, request.route,
                           request.sourceId, request.bus)
  IN  /\ toClient' = toClient \cup ServerPost(reply, throws)
      /\ replies' = [replies EXCEPT ![request.id] =
                       @ + Cardinality(ServerPost(reply, throws))]
      /\ UNCHANGED <<inFlight, execs>>

\* #handleEnvelope past the addressing filter, up to the invocation of the
\* handler.  An execution records the request, the index in the route table
\* of the entry whose handler is invoked, and the context the handler is
\* given.
AcceptedRequest(data, throws) ==
  IF Refused(data.route)
  THEN Refusal(data, Forbidden, throws) /\ UNCHANGED routes
  ELSE IF PayloadSizeBytes(data.payload) > cfg.sMaxPayloadBytes
  THEN Refusal(data, PayloadTooLarge, throws) /\ UNCHANGED routes
  ELSE IF FirstMatch(routes, data.route) = 0
  THEN Refusal(data, RouteNotFound, throws) /\ routes' = Tested(routes, data.route)
  ELSE LET m == FirstMatch(routes, data.route)
           exec == [request |-> data, entry |-> m,
                    matchedRoute |-> RouteString(routes[m]),
                    params |-> MatchRoute(routes[m], data.route).params,
                    aborted |-> FALSE, settled |-> FALSE]
       IN  /\ execs' = [execs EXCEPT ![data.id] = Append(@, exec)]
           /\ inFlight' = [inFlight EXCEPT ![data.id] = Len(execs[data.id]) + 1]
           /\ routes' = Tested(routes, data.route)
           /\ UNCHANGED <<toClient, replies>>

\* A dispatch that answers every well-formed Request, whatever its
\* addressing fields.
HandleEnvelopeUnfiltered(data, throws) ==
  IF sClosed THEN UNCHANGED <<toClient, routes, inFlight, execs, replies>>
  ELSE IF IsAtBusCancel(data)
  THEN /\ execs' = IF MatchesAddressing(data.sourceId, data.targetId, data.bus)
                   THEN AbortInFlight(data.id) ELSE execs
       /\ UNCHANGED <<toClient, routes, inFlight, replies>>
  ELSE IF ~IsAtBusRequest(data)
  THEN UNCHANGED <<toClient, routes, inFlight, execs, replies>>
  ELSE AcceptedRequest(data, throws)

\* A dispatch whose Cancel branch also deletes the in-flight entry.
HandleEnvelopeCancelRemoves(data, throws) ==
  IF sClosed THEN UNCHANGED <<toClient, routes, inFlight, execs, replies>>
  ELSE IF IsAtBusCancel(data)
  THEN IF MatchesAddressing(data.sourceId, data.targetId, data.bus)
       THEN /\ execs' = AbortInFlight(data.id)
            /\ inFlight' = [inFlight EXCEPT ![data.id] = 0]
            /\ UNCHANGED <<toClient, routes, replies>>
       ELSE UNCHANGED <<toClient, routes, inFlight, execs, replies>>
  ELSE IF ~IsAtBusRequest(data)
  THEN UNCHANGED <<toClient, routes, inFlight, execs, replies>>
  ELSE IF ~MatchesAddressing(data.sourceId, data.targetId, data.bus)
  THEN UNCHANGED <<toClient, routes, inFlight, execs, replies>>
  ELSE AcceptedRequest(data, throws)

\* #handleEnvelope(data), up to the invocation of the handler.
HandleEnvelope(data, throws) ==
  IF sClosed THEN UNCHANGED <<toClient, routes, inFlight, execs, replies>>
  ELSE IF IsAtBusCancel(data)
  THEN /\ execs' = IF MatchesAddressing(data.sourceId, data.targetId, data.bus)
                   THEN AbortInFlight(data.id) ELSE execs
       /\ UNCHANGED <<toClient, routes, inFlight, replies>>
  ELSE IF ~IsAtBusRequest(data)
  THEN UNCHANGED <<toClient, routes, inFlight, execs, replies>>
  ELSE IF ~MatchesAddressing(data.sourceId, data.targetId, data.bus)
  THEN UNCHANGED <<toClient, routes, inFlight, execs, replies>>
  ELSE AcceptedRequest(data, throws)

\* The medium delivers one envelope to the server's onmessage handler.
ServerReceive(envelope, throws) ==
  /\ envelope \in toServer
  /\ sEndpoint.onmessage
  /\ toServer' = toServer \ {envelope}
  /\ HandleEnvelope(envelope, throws)
  /\ UNCHANGED <<cfg, clientVars, sStarted, sClosed, sEndpoint>>

\* What the handlers of the model do: return their payload, or fail with one
\* of these raw failures.
HandlerFailures == { PlainError, RawError(Timeout, Undefined) }
HandlerOutcomes ==
  {[ok |-> TRUE]} \cup {[ok |-> FALSE, error |-> e] : e \in HandlerFailures}

\* A settlement that posts the success and, after it, the failure of the
\* catch block.
SettleRepliesBoth(request, outcome, throws, throwsAgain) ==
  { SuccessEnvelope(request.id, request.payload, cfg.serverId,
                    request.sourceId, request.bus),
    FailureEnvelope(request.id, MapError(PlainError, request.route),
                    cfg.serverId, request.sourceId, request.bus) }

\* The envelopes the rest of #handleEnvelope posts once the handler has
\* settled: the response, and when posting a success throws, the failure
\* the catch block builds from the thrown value.
SettleReplies(request, outcome, throws, throwsAgain) ==
  LET success == SuccessEnvelope(request.id, request.payload, cfg.serverId,
                                 request.sourceId, ReplyBus(request))
      failure(raw) == FailureEnvelope(request.id, MapError(raw, request.route),
                                      cfg.serverId, request.sourceId,
                                      ReplyBus(request))
  IN  IF outcome.ok
      THEN IF ~sClosed /\ throws
           THEN ServerPost(failure(DataCloneError), throwsAgain)
           ELSE ServerPost(success, FALSE)
      ELSE ServerPost(failure(outcome.error), throws)

\* A settlement without the finally block when the handler failed.
HandlerSettleLeaks(id, k, outcome, throws, throwsAgain) ==
  /\ k \in 1..Len(execs[id])
  /\ ~execs[id][k].settled
  /\ LET posted == SettleReplies(execs[id][k].request, outcome, throws, throwsAgain)
     IN  /\ toClient' = toClient \cup posted
         /\ replies' = [replies EXCEPT ![id] = @ + Cardinality(posted)]
  /\ execs' = [execs EXCEPT ![id][k].settled = TRUE]
  /\ inFlight' = IF outcome.ok THEN [inFlight EXCEPT ![id] = 0] ELSE inFlight
  /\ UNCHANGED <<cfg, clientVars, toServer, sStarted, sClosed, sEndpoint, routes>>

\* The handler of execution k of identifier id settles, and #handleEnvelope
\* resumes after its await.
HandlerSettle(id, k, outcome, throws, throwsAgain) ==
  /\ k \in 1..Len(execs[id])
  /\ ~execs[id][k].settled
  /\ LET posted == SettleReplies(execs[id][k].request, outcome, throws, throwsAgain)
     IN  /\ toClient' = toClient \cup posted
         /\ replies' = [replies EXCEPT ![id] = @ + Cardinality(posted)]
  /\ execs' = [execs EXCEPT ![id][k].settled = TRUE]
  /\ inFlight' = [inFlight EXCEPT ![id] = 0]
  /\ UNCHANGED <<cfg, clientVars, toServer, sStarted, sClosed, sEndpoint, routes>>

\* The handler of the matched route throws before it returns a promise:
\* #handleEnvelope runs from the delivery through the catch and finally
\* blocks without yielding.
HandlerThrows(envelope, error) ==
  /\ envelope \in toServer
  /\ sEndpoint.onmessage
  /\ ~sClosed
  /\ IsAtBusRequest(envelope)
  /\ MatchesAddressing(envelope.sourceId, envelope.targetId, envelope.bus)
  /\ ~Refused(envelope.route)
  /\ PayloadSizeBytes(envelope.payload) <= cfg.sMaxPayloadBytes
  /\ FirstMatch(routes, envelope.route) # 0
  /\ toServer' = toServer \ {envelope}
  /\ LET m == FirstMatch(routes, envelope.route)
         exec == [request |-> envelope, entry |-> m,
                  matchedRoute |-> RouteString(routes[m]),
                  params |-> MatchRoute(routes[m], envelope.route).params,
                  aborted |-> FALSE, settled |-> TRUE]
         posted == SettleReplies(envelope, [ok |-> FALSE, error |-> error],
                                 FALSE, FALSE)
     IN  /\ execs' = [execs EXCEPT ![envelope.id] = Append(@, exec)]
         /\ inFlight' = [inFlight EXCEPT ![envelope.id] = 0]
         /\ routes' = Tested(routes, envelope.route)
         /\ toClient' = toClient \cup posted
         /\ replies' = [replies EXCEPT ![envelope.id] = @ + Cardinality(posted)]
  /\ UNCHANGED <<cfg, clientVars, sStarted, sClosed, sEndpoint>>

\* A stop() without the closed guard.
ServerStopUnguarded ==
  /\ sClosed' = TRUE
  /\ sStarted' = FALSE
  /\ sEndpoint' = DetachAndClose(sEndpoint)
  /\ routes' = <<>>
  /\ execs' = [id \in Ids |->
                 IF inFlight[id] = 0 THEN execs[id]
                 ELSE [execs[id] EXCEPT ![inFlight[id]].aborted = TRUE]]
  /\ inFlight' = [id \in Ids |-> 0]
  /\ UNCHANGED <<cfg, clientVars, toServer, toClient, replies>>

\* stop()
ServerStop ==
  IF sClosed
  THEN UNCHANGED vars
  ELSE /\ sClosed' = TRUE
       /\ sStarted' = FALSE
       /\ sEndpoint' = DetachAndClose(sEndpoint)
       /\ routes' = <<>>
       /\ execs' = [id \in Ids |->
                      IF inFlight[id] = 0 THEN execs[id]
                      ELSE [execs[id] EXCEPT ![inFlight[id]].aborted = TRUE]]
       /\ inFlight' = [id \in Ids |-> 0]
       /\ UNCHANGED <<cfg, clientVars, toServer, toClient, replies>>

\* close()
ServerClose == ServerStop

(***************************************************************************)
(* The medium                                                              *)
(***************************************************************************)
\* The medium loses an envelope (or delivers it to an endpoint whose handler
\* is detached).
Lose(envelope) ==
  /\ \/ envelope \in toServer /\ toServer' = toServer \ {envelope}
                               /\ UNCHANGED toClient
     \/ envelope \in toClient /\ toClient' = toClient \ {envelope}
                               /\ UNCHANGED toServer
  /\ UNCHANGED <<cfg, clientVars, serverVars>>

(***************************************************************************)
(* Specification                                                           *)
(***************************************************************************)
\* The client and server of the README's addressed broadcast test.
Configs ==
  { [clientId |-> "client-1", targetId |-> "server-a", cBus |-> "core",
     cMaxPayloadBytes |-> SmallCeiling,
     serverId |-> "server-a", sBus |-> "core", acceptUnaddressed |-> FALSE,
     sMaxPayloadBytes |-> SmallCeiling, hasCanHandle |-> FALSE, allowed |-> {}] }

\* The calls of the model: the route is the registered one, and the n-th
\* registered call carries a payload of n letters, so that the results of
\* different calls differ.  The throwing of postMessage on the Cancel envelope
\* is held at one value unless onAbort runs inside the call.
PayloadOf(n) == Letters("a", n)
CallInputs ==
  { c \in [route : {RouteA}, payload : {PayloadOf(nextId)}, signal : Signals,
           requestThrows : BOOLEAN, cancelThrows : BOOLEAN] :
      c.cancelThrows => (c.signal = "aborted" /\ ~c.requestThrows) }

Init ==
  /\ cfg \in Configs
  /\ cStarted \in BOOLEAN      \* the autoStart option
  /\ cClosed = FALSE
  /\ cEndpoint = IF cStarted THEN Attach(NewEndpoint) ELSE NewEndpoint
  /\ nextId = 1
  /\ pending = {}
  /\ timers = {}
  /\ promise = [id \in Ids |-> NoPromise]
  /\ args = [id \in Ids |-> NoArgs]
  /\ aborted = {}
  /\ listening = {}
  /\ log = [id \in Ids |-> <<>>]
  /\ lastCall = [kind |-> "none"]
  /\ toServer = {}
  /\ toClient = {}
  /\ sStarted = TRUE
  /\ sClosed = FALSE
  /\ sEndpoint = Attach(NewEndpoint)
  /\ routes = <<>>
  /\ inFlight = [id \in Ids |-> 0]
  /\ execs = [id \in Ids |-> <<>>]
  /\ replies = [id \in Ids |-> 0]

Next ==
  \/ ClientStart
  \/ \E c \in CallInputs :
       Call(c.route, c.payload, c.signal, c.requestThrows, c.cancelThrows)
  \/ \E id \in Ids, cancelThrows \in BOOLEAN : ClientTimeout(id, cancelThrows)
  \/ \E id \in Ids, cancelThrows \in BOOLEAN : AbortSignal(id, cancelThrows)
  \/ \E envelope \in toClient : ClientReceive(envelope)
  \/ \E throwing \in SUBSET pending : ClientStop(throwing)
  \/ \E throwing \in SUBSET pending : ClientClose(throwing)
  \/ \E route \in RouteChoices : Len(routes) < MaxRoutes /\ At(route)
  \/ \E envelope \in toServer, throws \in BOOLEAN : ServerReceive(envelope, throws)
  \/ \E id \in Ids : \E k \in 1..Len(execs[id]), outcome \in HandlerOutcomes,
        throws \in BOOLEAN, throwsAgain \in BOOLEAN :
       HandlerSettle(id, k, outcome, throws, throwsAgain)
  \/ ServerStop
  \/ ServerClose
  \/ \E envelope \in toServer \cup toClient : Lose(envelope)

Spec == Init /\ [][Next]_vars

(***************************************************************************)
(* Properties                                                              *)
(***************************************************************************)
Issued(id) == id < nextId
Settled(id) == promise[id].st \in {"resolved", "rejected"}

\* The completion transitions of call id, in the order they executed.
TransitionsOf(id) == SelectSeq(log[id], LAMBDA e : e.ev \in Transitions)
Ran(id, name) == \E i \in 1..Len(log[id]) : log[id][i].ev = name
PostsOf(id, kind) ==
  Len(SelectSeq(log[id], LAMBDA e : e.ev = "post" /\ e.kind = kind))
FirstTransition(id) ==
  IF TransitionsOf(id) = <<>> THEN "none" ELSE TransitionsOf(id)[1].ev

RejectedWith(p, code, route, retriable, requestId) ==
  /\ p.st = "rejected"
  /\ p.code = code
  /\ p.route = route
  /\ p.retriable = retriable
  /\ p.requestId = requestId

\* C1: the promise of every registered call is pending until the first of
\* its completion transitions (response, timeout, abort, send failure, stop)
\* executes, and from then on holds the outcome that transition produced,
\* whatever transitions execute after it.
C1_FirstTransitionSettles ==
  \A id \in Ids :
    /\ ~Issued(id) => promise[id] = NoPromise /\ log[id] = <<>>
    /\ Issued(id) =>
         IF TransitionsOf(id) = <<>>
         THEN promise[id] = PendingPromise
         ELSE Settled(id) /\ promise[id] = TransitionsOf(id)[1].out

\* C1 witness: a call answered by a response, whose signal then fired (a
\* second completion transition executed).
C1_Witness ==
  \E id \in Ids :
    /\ Len(TransitionsOf(id)) >= 2
    /\ TransitionsOf(id)[1].ev = "response"
    /\ TransitionsOf(id)[2].ev = "abort"
    /\ promise[id].st = "resolved"

\* C2: a Response that passes the requester's filter and carries the
\* identifier of a pending call resolves that call with the carried data
\* (success) or rejects it with the carried error record tagged with the
\* identifier (failure), and leaves every other call's entry, timer and
\* promise as they were; a call resolved by a response holds the result of
\* the handler run on its own payload.
C2_ResponseStep ==
  \A response \in toClient :
    (/\ ClientReceive(response)
     /\ response.type = "atbus:response"
     /\ response.id \in pending)
    => /\ IF response.ok
          THEN /\ promise'[response.id].st = "resolved"
               /\ promise'[response.id].data = response.data
          ELSE RejectedWith(promise'[response.id], response.error.code,
                            response.error.route, response.error.retriable,
                            response.id)
       /\ response.id \notin pending'
       /\ \A other \in Ids \ {response.id} :
            /\ promise'[other] = promise[other]
            /\ (other \in pending') = (other \in pending)
            /\ (other \in timers') = (other \in timers)

C2_OwnResult ==
  \A id \in Ids :
    promise[id].st = "resolved" => promise[id].data = args[id].payload

C2_ResponseSettlesItsOwnCall == []C2_OwnResult /\ [][C2_ResponseStep]_vars

\* C2 witness: the response of the second call was delivered, and resolved
\* it, while the first call is still pending.
C2_Witness ==
  /\ MaxCalls >= 2
  /\ 1 \in pending
  /\ promise[2].st = "resolved"
  /\ promise[2].data = PayloadOf(2)
  /\ FirstTransition(2) = "response"

\* C3: when the timeout callback of a pending call runs, the entry is
\* removed, postMessage is called with a Cancel envelope for the identifier
\* (which reaches the medium unless the call throws, a throw being
\* swallowed), and the call rejects with TIMEOUT, retriable, carrying the
\* route; a call that timed out stays rejected with TIMEOUT whatever the
\* responder does afterwards.
C3_TimeoutStep ==
  \A id \in Ids : \A throws \in BOOLEAN :
    (ClientTimeout(id, throws) /\ id \in pending)
    => /\ id \notin pending'
       /\ id \notin timers'
       /\ PostsOf(id, "cancel")' = PostsOf(id, "cancel") + 1
       /\ ~throws => \E c \in toServer' : c.type = "atbus:cancel" /\ c.id = id
       /\ throws => toServer' = toServer
       /\ RejectedWith(promise'[id], Timeout, args[id].route, TRUE, id)

C3_TimedOut ==
  \A id \in Ids :
    Ran(id, "timeout")
    => /\ id \notin pending
       /\ RejectedWith(promise[id], Timeout, args[id].route, TRUE, id)

C3_TimeoutRejects == []C3_TimedOut /\ [][C3_TimeoutStep]_vars

\* C3 witness: a call timed out while its handler was running, and the
\* handler has since settled and replied.
C3_Witness ==
  \E id \in Ids :
    /\ promise[id].st = "rejected" /\ promise[id].code = Timeout
    /\ Len(execs[id]) = 1 /\ execs[id][1].settled
    /\ replies[id] = 1
    /\ \A e \in toClient : e.id # id

\* C4: when the abort signal of a pending call fires, the timer is
\* cancelled, the entry is removed, postMessage is called with a Cancel
\* envelope for the identifier (which reaches the medium unless the call
\* throws), and the call rejects with CANCELLED, not retriable.
C4_AbortStep ==
  \A id \in Ids : \A throws \in BOOLEAN :
    (AbortSignal(id, throws) /\ id \in pending)
    => /\ id \notin pending'
       /\ id \notin timers'
       /\ PostsOf(id, "cancel")' = PostsOf(id, "cancel") + 1
       /\ ~throws => \E c \in toServer' : c.type = "atbus:cancel" /\ c.id = id
       /\ RejectedWith(promise'[id], Cancelled, args[id].route, FALSE, id)

C4_AbortRejects == [][C4_AbortStep]_vars

\* C4 witness: a call rejected by its signal firing some time after the
\* call was made.
C4_Witness ==
  \E id \in Ids :
    /\ args[id].signal = "idle"
    /\ FirstTransition(id) = "abort"
    /\ promise[id].st = "rejected" /\ promise[id].code = Cancelled
    /\ id \notin timers

IndexOf(id, name) ==
  CHOOSE i \in 1..Len(log[id]) : log[id][i].ev = name
IndexOfPost(id, kind) ==
  CHOOSE i \in 1..Len(log[id]) : log[id][i].ev = "post" /\ log[id][i].kind = kind

\* C5 as stated: a call made with an already-aborted signal (and whose
\* Request post does not throw) is rejected with CANCELLED, and the
\* cancellation takes effect before the Request envelope is posted.
C5_CancelledBeforeRequestIsPosted ==
  \A id \in Ids :
    (Issued(id) /\ args[id].signal = "aborted" /\ ~Ran(id, "sendfail"))
    => /\ promise[id].st = "rejected" /\ promise[id].code = Cancelled
       /\ PostsOf(id, "request") > 0
            => IndexOf(id, "abort") < IndexOfPost(id, "request")

\* C5 as amended: a call made with an already-aborted signal posts the
\* Request envelope first; when that post throws the call rejects with
\* TRANSPORT_ERROR and no Cancel is posted, otherwise onAbort runs inside
\* call(): a Cancel envelope is posted after the Request and the call is
\* rejected with CANCELLED, not retriable, with no entry and no timer left
\* when call() returns.
C5_CancelledAfterRequestIsPosted ==
  \A id \in Ids :
    (Issued(id) /\ args[id].signal = "aborted")
    => /\ id \notin pending
       /\ id \notin timers
       /\ \/ /\ log[id] = <<Posted("request"), Posted("cancel"),
                            Transition("abort", promise[id])>>
             /\ RejectedWith(promise[id], Cancelled, args[id].route, FALSE, id)
          \/ /\ log[id] = <<Posted("request"),
                            Transition("sendfail", promise[id])>>
             /\ RejectedWith(promise[id], TransportError, args[id].route, TRUE, id)

\* C5 witness: a call made with an already-aborted signal whose Request and
\* Cancel envelopes are both on the medium, and which is rejected with
\* CANCELLED.
C5_Witness ==
  \E id \in Ids :
    /\ args[id].signal = "aborted"
    /\ promise[id].st = "rejected" /\ promise[id].code = Cancelled
    /\ \E r \in toServer : r.type = "atbus:request" /\ r.id = id
    /\ \E c \in toServer : c.type = "atbus:cancel" /\ c.id = id

\* C6: when a Cancel envelope from the requester is delivered to the
\* responder and passes its addressing filter while a handler is running for
\* the identifier, the cancellation token handed to that handler is aborted
\* after the step; and a token once aborted stays aborted.
C6_CancelStep ==
  \A cancel \in toServer : \A throws \in BOOLEAN :
    (/\ ServerReceive(cancel, throws)
     /\ cancel.type = "atbus:cancel"
     /\ ~sClosed
     /\ MatchesAddressing(cancel.sourceId, cancel.targetId, cancel.bus))
    => \A k \in 1..Len(execs[cancel.id]) :
         ~execs[cancel.id][k].settled => execs'[cancel.id][k].aborted

C6_StaysAborted ==
  \A id \in Ids : \A k \in 1..Len(execs[id]) :
    execs[id][k].aborted
    => Len(execs'[id]) >= k /\ execs'[id][k].aborted

C6_CancelAbortsRunningHandler ==
  [][C6_CancelStep]_vars /\ [][C6_StaysAborted]_vars

\* C6 witness: the requester timed out or was aborted, and the token of the
\* handler still running for the call is aborted, the responder being open.
C6_Witness ==
  \E id \in Ids :
    /\ promise[id].st = "rejected"
    /\ promise[id].code \in {Timeout, Cancelled}
    /\ ~sClosed
    /\ Len(execs[id]) = 1
    /\ ~execs[id][1].settled
    /\ execs[id][1].aborted

\* C7: a call whose Request post threw is rejected with TRANSPORT_ERROR,
\* retriable, carrying the route, by the call itself; it has no entry and no
\* armed timer, never runs the timeout transition, and no Request or Cancel
\* envelope for its identifier is ever posted or on the medium.
C7_SendFailureRejectsAtOnce ==
  \A id \in Ids :
    Ran(id, "sendfail")
    => /\ RejectedWith(promise[id], TransportError, args[id].route, TRUE, id)
       /\ id \notin pending
       /\ id \notin timers
       /\ ~Ran(id, "timeout")
       /\ PostsOf(id, "cancel") = 0
       /\ \A e \in toServer : e.id # id

\* C7 witness: the Request post of a call threw, and since then its signal
\* has fired and the client has been stopped.
C7_Witness ==
  \E id \in Ids :
    /\ Ran(id, "sendfail")
    /\ args[id].signal = "idle"
    /\ id \in aborted
    /\ cClosed

\* C8: stop() on a client that is not closed marks it closed, detaches the
\* receive handler, and for every pending entry cancels the timer, calls
\* postMessage with a Cancel envelope (which reaches the medium unless the
\* call throws) and rejects the call with CLIENT_CLOSED, not retriable;
\* afterwards the table is empty and the endpoint has been closed.  A closed
\* client has no entry, no armed timer and no receive handler.
C8_StopStep ==
  \A throwing \in SUBSET pending :
    (~cClosed /\ ClientStop(throwing))
    => /\ cClosed'
       /\ ~cEndpoint'.onmessage
       /\ cEndpoint'.closes = cEndpoint.closes + 1
       /\ pending' = {}
       /\ timers' = {}
       /\ \A id \in pending :
            /\ RejectedWith(promise'[id], ClientClosed, NoRoute, FALSE, id)
            /\ PostsOf(id, "cancel")' = PostsOf(id, "cancel") + 1
            /\ id \notin throwing
                 => \E c \in toServer' : c.type = "atbus:cancel" /\ c.id = id

C8_Closed ==
  cClosed => /\ pending = {}
             /\ timers = {}
             /\ ~cEndpoint.onmessage
             /\ cEndpoint.closes = 1

C8_StopDrains == []C8_Closed /\ [][C8_StopStep]_vars

\* C8 witness: the client was stopped with every call of the model pending,
\* and all of them are rejected with CLIENT_CLOSED.
C8_Witness ==
  /\ cClosed
  /\ \A id \in Ids :
       /\ FirstTransition(id) = "stop"
       /\ promise[id].st = "rejected" /\ promise[id].code = ClientClosed

\* C9: stop() or close() on a closed client changes nothing: no envelope is
\* posted, no promise settles, and the endpoint is not closed again.
C9_SecondStopStep ==
  cClosed =>
    \A throwing \in SUBSET pending :
      (ClientStop(throwing) \/ ClientClose(throwing)) => UNCHANGED vars

C9_ClosedOnce == cEndpoint.closes <= 1

C9_StopIsIdempotent == []C9_ClosedOnce /\ [][C9_SecondStopStep]_vars

\* C9 witness: a closed client, whose endpoint was closed once and whose
\* pending call was rejected by the first stop().
C9_Witness ==
  /\ cClosed
  /\ cEndpoint.closes = 1
  /\ \E id \in Ids : FirstTransition(id) = "stop" /\ PostsOf(id, "cancel") = 1

\* C10: call() on a closed client returns a promise rejected with
\* CLIENT_CLOSED, and leaves the endpoint (not started, no handler attached,
\* nothing posted), the table, the timers, the identifiers and every other
\* promise as they were.
C10_CallAfterStopStep ==
  cClosed =>
    \A c \in CallInputs :
      Call(c.route, c.payload, c.signal, c.requestThrows, c.cancelThrows)
      => /\ lastCall'.kind = "rejected"
         /\ RejectedWith(lastCall'.promise, ClientClosed, c.route, FALSE, Local)
         /\ UNCHANGED <<cStarted, cEndpoint, toServer, nextId, pending, timers,
                        promise, log, listening>>

C10_CallAfterStopFails == [][C10_CallAfterStopStep]_vars

\* C10 witness: a client constructed with auto-start off and stopped before
\* it was started was called: the call is rejected with CLIENT_CLOSED and
\* the endpoint has never been started.
C10_Witness ==
  /\ cClosed
  /\ lastCall.kind = "rejected"
  /\ lastCall.promise.code = ClientClosed
  /\ cEndpoint.starts = 0
  /\ ~cEndpoint.onmessage

(***************************************************************************)
(* The requester alone: calls with every route and payload of the model,   *)
(* on a requester created with auto-start on or off.                       *)
(***************************************************************************)
CallerInputs ==
  [route : CallRoutes, payload : Payloads \cup {CyclicPayload},
   signal : {"none"}, requestThrows : BOOLEAN, cancelThrows : {FALSE}]

CallerNext ==
  \/ ClientStart
  \/ \E c \in CallerInputs :
       Call(c.route, c.payload, c.signal, c.requestThrows, c.cancelThrows)
  \/ \E id \in Ids : ClientTimeout(id, FALSE)
  \/ ClientStop({})
  \/ \E envelope \in toServer : Lose(envelope)

CallerSpec == Init /\ [][CallerNext]_vars

\* The call fails a precondition: the requester is closed, the route does not
\* start with '/', or the payload is over the ceiling.
FailsPrecondition(c) ==
  \/ cClosed
  \/ c.route = <<>> \/ c.route[1] # "/"
  \/ c.payload \in {PayloadOverCeiling, CyclicPayload}

\* C11: a call that fails a precondition consumes no identifier, registers no
\* entry, arms no timer, sends nothing and does not act on the endpoint,
\* whether or not the requester has been started.
C11_FailedPreconditionStep ==
  \A c \in CallerInputs :
    (FailsPrecondition(c)
       /\ Call(c.route, c.payload, c.signal, c.requestThrows, c.cancelThrows))
    => /\ lastCall'.kind \in {"threw", "rejected"}
       /\ UNCHANGED <<nextId, pending, timers, toServer, log, promise,
                      cStarted, cEndpoint>>

C11_FailedPreconditionTouchesNothing == [][C11_FailedPreconditionStep]_vars

\* C12: a call whose payload serializes to more than the ceiling is rejected
\* with PAYLOAD_TOO_LARGE, retriable = false, and sends nothing; a payload of
\* the ceiling or fewer bytes is not rejected for size.
C12_CeilingStep ==
  ~cClosed =>
    \A c \in CallerInputs :
      (ValidateRoute(c.route)
         /\ Call(c.route, c.payload, c.signal, c.requestThrows, c.cancelThrows))
      => /\ c.payload = PayloadOverCeiling =>
              /\ lastCall'.kind = "rejected"
              /\ RejectedWith(lastCall'.promise, PayloadTooLarge, c.route,
                              FALSE, Local)
              /\ UNCHANGED <<toServer, log, nextId, pending, timers>>
         /\ c.payload \in {PayloadTiny, PayloadAtCeiling} =>
              /\ lastCall'.kind = "registered"
              /\ log'[lastCall'.id][1] = Posted("request")
         /\ (lastCall'.kind = "rejected"
               /\ lastCall'.promise.code = PayloadTooLarge)
            <=> 2 + Utf8Length(c.payload) > cfg.cMaxPayloadBytes
                  \/ c.payload = CyclicPayload

C12_RequesterCeiling == [][C12_CeilingStep]_vars

C12_Witness ==
  /\ \E id \in Ids : Issued(id) /\ args[id].payload = PayloadAtCeiling
  /\ lastCall.kind = "rejected"
  /\ lastCall.promise.code = PayloadTooLarge
  /\ lastCall.promise.requestId = Local

(***************************************************************************)
(* The responder on a broadcast medium: envelopes posted by other          *)
(* endpoints, with every combination of addressing fields, reach a         *)
(* responder constructed with each combination of options.                 *)
(***************************************************************************)
\* Bound on the handler executions, and on the replies, of one identifier.
MaxExecs == 1

ResponderConfigs ==
  { [clientId |-> "client-1", targetId |-> "server-a", cBus |-> "core",
     cMaxPayloadBytes |-> SmallCeiling,
     serverId |-> "server-a", sBus |-> bus, acceptUnaddressed |-> unaddressed,
     sMaxPayloadBytes |-> SmallCeiling,
     hasCanHandle |-> permission, allowed |-> {RouteA}] :
      bus \in {Undefined, "core"}, unaddressed \in BOOLEAN,
      permission \in BOOLEAN }

SourceIds == {"c1", "server-a"}
TargetIds == {"server-a", "server-b", Undefined}
Buses == {"core", "analytics", Undefined}

\* What the other endpoints post: Requests and Cancels of identifier 1.
Broadcast ==
  { RequestEnvelope(1, route, payload, sourceId, targetId, bus) :
      route \in {RouteA, RouteB}, payload \in {PayloadTiny, PayloadOverCeiling},
      sourceId \in SourceIds, targetId \in TargetIds, bus \in Buses }
  \cup
  { CancelEnvelope(1, sourceId, targetId, bus) :
      sourceId \in SourceIds, targetId \in TargetIds, bus \in Buses }

\* Another endpoint posts an envelope on the medium.
Inject(envelope) ==
  /\ toServer = {}
  /\ toClient = {}
  /\ toServer' = {envelope}
  /\ UNCHANGED <<cfg, clientVars, toClient, serverVars>>

\* A started requester that has made no call, and a started responder with no
\* route.
Fresh ==
  /\ cStarted = TRUE
  /\ cClosed = FALSE
  /\ cEndpoint = Attach(NewEndpoint)
  /\ nextId = 1
  /\ pending = {}
  /\ timers = {}
  /\ promise = [id \in Ids |-> NoPromise]
  /\ args = [id \in Ids |-> NoArgs]
  /\ aborted = {}
  /\ listening = {}
  /\ log = [id \in Ids |-> <<>>]
  /\ lastCall = [kind |-> "none"]
  /\ toServer = {}
  /\ toClient = {}
  /\ sStarted = TRUE
  /\ sClosed = FALSE
  /\ sEndpoint = Attach(NewEndpoint)
  /\ routes = <<>>
  /\ inFlight = [id \in Ids |-> 0]
  /\ execs = [id \in Ids |-> <<>>]
  /\ replies = [id \in Ids |-> 0]

\* The identifier of a Request has had fewer than most executions and fewer
\* than most replies.
Room(envelope, most) ==
  envelope.type = "atbus:request" =>
    Len(execs[envelope.id]) < most /\ replies[envelope.id] < most

ResponderInit ==
  /\ cfg \in ResponderConfigs
  /\ Fresh

ResponderNext ==
  \/ \E envelope \in Broadcast : Room(envelope, MaxExecs) /\ Inject(envelope)
  \/ \E route \in RouteChoices : Len(routes) < MaxRoutes /\ At(route)
  \/ \E envelope \in toServer, throws \in BOOLEAN : ServerReceive(envelope, throws)
  \/ \E id \in Ids : \E k \in 1..Len(execs[id]), outcome \in HandlerOutcomes,
        throws \in BOOLEAN, throwsAgain \in BOOLEAN :
       HandlerSettle(id, k, outcome, throws, throwsAgain)
  \/ ServerStop
  \/ \E envelope \in toClient : Lose(envelope)

ResponderSpec == ResponderInit /\ [][ResponderNext]_vars

\* The responder ignored the envelope it was delivered.
Dropped == UNCHANGED <<toClient, routes, inFlight, execs, replies>>

\* The responder answered the Request or invoked a handler for it.
Answered(request) ==
  \/ Len(execs'[request.id]) = Len(execs[request.id]) + 1
  \/ replies'[request.id] = replies[request.id] + 1

\* The envelope is not from the responder itself, and it is addressed to the
\* responder or is unaddressed and the responder accepts unaddressed messages.
SourceAndTargetPass(envelope) ==
  /\ envelope.sourceId # cfg.serverId
  /\ \/ envelope.targetId = cfg.serverId
     \/ envelope.targetId = Undefined /\ cfg.acceptUnaddressed

\* C13: a Request that passes the addressing filter and the route-permission
\* predicate and whose payload is over the responder's ceiling is answered
\* with PAYLOAD_TOO_LARGE, retriable = false; no handler is invoked and no
\* in-flight entry is created, whether or not a route matches.
C13_OversizeStep ==
  \A request \in toServer :
    (/\ request.type = "atbus:request"
     /\ MatchesAddressing(request.sourceId, request.targetId, request.bus)
     /\ ~Refused(request.route)
     /\ request.payload = PayloadOverCeiling)
    => /\ ServerReceive(request, FALSE) =>
            /\ \E reply \in toClient' :
                 /\ toClient' = toClient \cup {reply}
                 /\ reply.type = "atbus:response"
                 /\ reply.id = request.id
                 /\ ~reply.ok
                 /\ reply.error = ErrorRecord(PayloadTooLarge, request.route, FALSE)
                 /\ reply.sourceId = cfg.serverId
                 /\ reply.targetId = request.sourceId
            /\ replies'[request.id] = replies[request.id] + 1
       /\ \A throws \in BOOLEAN :
            ServerReceive(request, throws) => UNCHANGED <<execs, inFlight>>

C13_ResponderCeiling == [][C13_OversizeStep]_vars

C13_Witness ==
  /\ routes = <<RouteA>>
  /\ execs[1] = <<>>
  /\ \E reply \in toClient :
       /\ ~reply.ok
       /\ reply.error.code = PayloadTooLarge
       /\ reply.error.route = RouteA

\* C15: a Request the addressing filter rejects is dropped: no Response, no
\* handler, no in-flight entry.  A responder "server-a" does not answer a
\* Request addressed to "server-b".
C15_RejectedStep ==
  \A request \in toServer :
    (/\ request.type = "atbus:request"
     /\ \/ ~MatchesAddressing(request.sourceId, request.targetId, request.bus)
        \/ request.targetId = "server-b")
    => \A throws \in BOOLEAN : ServerReceive(request, throws) => Dropped

C15_RejectedRequestIsDropped == [][C15_RejectedStep]_vars

C15_Witness ==
  /\ sEndpoint.onmessage
  /\ routes = <<RouteA>>
  /\ cfg.serverId = "server-a"
  /\ \E request \in toServer :
       /\ request.type = "atbus:request"
       /\ request.route = RouteA
       /\ request.payload = PayloadTiny
       /\ request.targetId = "server-b"

\* C16: the responder "server-a" on bus "core" that does not accept
\* unaddressed messages accepts {c1, server-a, core} and rejects
\* {c1, server-b, core}, {c1, no target}, {c1, server-a, analytics} and
\* {server-a, server-a, core}.
MatrixResponder ==
  /\ cfg.serverId = "server-a"
  /\ cfg.sBus = "core"
  /\ ~cfg.acceptUnaddressed

C16_MatrixStep ==
  MatrixResponder =>
    \A request \in toServer :
      request.type = "atbus:request" =>
        LET is(sourceId, targetId, bus) ==
              /\ request.sourceId = sourceId
              /\ request.targetId = targetId
              /\ request.bus = bus
        IN  /\ is("c1", "server-a", "core") =>
                 (ServerReceive(request, FALSE) => Answered(request))
            /\ (\/ is("c1", "server-b", "core")
                \/ request.sourceId = "c1" /\ request.targetId = Undefined
                \/ is("c1", "server-a", "analytics")
                \/ is("server-a", "server-a", "core")) =>
                 \A throws \in BOOLEAN : ServerReceive(request, throws) => Dropped

C16_AddressingMatrix == [][C16_MatrixStep]_vars

C16_Witness ==
  /\ MatrixResponder
  /\ Len(execs[1]) = 1
  /\ execs[1][1].request.sourceId = "c1"
  /\ execs[1][1].request.targetId = "server-a"
  /\ execs[1][1].request.bus = "core"

\* C17 as stated: a responder with a configured bus name rejects every Request
\* or Cancel envelope that carries no bus name.
C17_BuslessStep ==
  Truthy(cfg.sBus) =>
    \A envelope \in toServer :
      envelope.bus = Undefined =>
        \A throws \in BOOLEAN : ServerReceive(envelope, throws) => Dropped

C17_ScopedResponderRejectsBusless == [][C17_BuslessStep]_vars

\* C17: a responder with a configured bus name accepts a Request or Cancel
\* envelope that carries no bus name when the envelope passes the source and
\* target rules: the Request is answered or handled, the Cancel aborts the
\* in-flight execution of its identifier.
C17_BuslessAcceptedStep ==
  Truthy(cfg.sBus) =>
    \A envelope \in toServer :
      (envelope.bus = Undefined /\ SourceAndTargetPass(envelope)) =>
        /\ envelope.type = "atbus:request" =>
             (ServerReceive(envelope, FALSE) => Answered(envelope))
        /\ (envelope.type = "atbus:cancel" /\ inFlight[envelope.id] # 0) =>
             \A throws \in BOOLEAN :
               ServerReceive(envelope, throws) =>
                 execs'[envelope.id][inFlight[envelope.id]].aborted

C17_ScopedResponderAcceptsBusless == [][C17_BuslessAcceptedStep]_vars

C17_Witness ==
  /\ cfg.sBus = "core"
  /\ \E k \in 1..Len(execs[1]) :
       /\ execs[1][k].request.bus = Undefined
       /\ execs[1][k].request.targetId = "server-a"
       /\ execs[1][k].aborted
       /\ ~execs[1][k].settled
  /\ ~sClosed

\* C18: a responder with no bus name rejects every envelope that carries one
\* and accepts, subject to the source and target rules, an envelope that
\* carries none; when both carry a bus name the envelope is accepted only if
\* the names are equal.
C18_BusStep ==
  \A envelope \in toServer :
    LET accepted ==
          /\ envelope.type = "atbus:request" =>
               (ServerReceive(envelope, FALSE) => Answered(envelope))
          /\ (envelope.type = "atbus:cancel" /\ inFlight[envelope.id] # 0) =>
               \A throws \in BOOLEAN :
                 ServerReceive(envelope, throws) =>
                   execs'[envelope.id][inFlight[envelope.id]].aborted
        rejected ==
          \A throws \in BOOLEAN : ServerReceive(envelope, throws) => Dropped
    IN  /\ (cfg.sBus = Undefined /\ envelope.bus # Undefined) => rejected
        /\ (cfg.sBus = Undefined /\ envelope.bus = Undefined
              /\ SourceAndTargetPass(envelope)) => accepted
        /\ (cfg.sBus # Undefined /\ envelope.bus # Undefined) =>
             /\ envelope.bus # cfg.sBus => rejected
             /\ (envelope.bus = cfg.sBus /\ SourceAndTargetPass(envelope)) =>
                  accepted

C14_ExactlyOneReply ==
  \A id \in Ids :
    (Len(execs[id]) = 1 /\ execs[id][1].settled) => replies[id] = 1

\* C14: the responder emits at most one Response for a Request; it emits
\* exactly one when it has not been stopped by the time the reply is sent and
\* the endpoint's send does not throw (a Cancel delivered in between changes
\* nothing), and none once it has been stopped.
C14_ReplyCount ==
  \A id \in Ids :
    /\ replies[id] <= 1
    /\ replies[id] = 1 => Ran(id, "post") /\ args[id].route # NoRoute
    /\ Cardinality({reply \in toClient : reply.id = id}) <= replies[id]

C14_ReplyStep ==
  /\ \A id \in Ids : replies'[id] \in {replies[id], replies[id] + 1}
  /\ \A request \in toServer :
       (/\ request.type = "atbus:request"
        /\ MatchesAddressing(request.sourceId, request.targetId, request.bus)
        /\ ServerReceive(request, FALSE))
       => \/ /\ replies'[request.id] = replies[request.id] + 1
             /\ execs' = execs
             /\ Cardinality(toClient' \ toClient) = 1
          \/ /\ replies' = replies
             /\ Len(execs'[request.id]) = Len(execs[request.id]) + 1
             /\ toClient' = toClient
  /\ \A id \in Ids : \A k \in 1..Len(execs[id]), outcome \in HandlerOutcomes :
       /\ (~sClosed /\ HandlerSettle(id, k, outcome, FALSE, FALSE))
          => /\ replies'[id] = replies[id] + 1
             /\ \E reply \in toClient' :
                  /\ toClient' = toClient \cup {reply}
                  /\ reply.id = id
                  /\ reply.ok = outcome.ok
       /\ (~sClosed /\ outcome.ok /\ HandlerSettle(id, k, outcome, TRUE, FALSE))
          => /\ replies'[id] = replies[id] + 1
             /\ \E reply \in toClient' : reply.id = id /\ ~reply.ok
       /\ sClosed =>
            \A throws \in BOOLEAN, throwsAgain \in BOOLEAN :
              HandlerSettle(id, k, outcome, throws, throwsAgain)
              => replies' = replies /\ toClient' = toClient

C14_AtMostOneReply == []C14_ReplyCount /\ [][C14_ReplyStep]_vars

C14_Witness ==
  /\ ~sClosed
  /\ \E id \in Ids :
       /\ Len(execs[id]) = 1
       /\ execs[id][1].settled
       /\ execs[id][1].aborted
       /\ replies[id] = 1
  /\ \E id \in Ids :
       /\ Len(execs[id]) = 1
       /\ execs[id][1].settled
       /\ replies[id] = 0

(***************************************************************************)
(* Routing: a responder with up to MaxTable literal and parameterized      *)
(* routes receives Requests for paths that one or both of them match.      *)
(***************************************************************************)
MaxTable == 2
\* Bound on the executions, and on the replies, of one identifier.
MaxDeliveries == 2

UsersMe == <<"/", "u", "s", "e", "r", "s", "/", "m", "e">>
UsersId == <<"/", "u", "s", "e", "r", "s", "/", ":", "i", "d">>
Users42 == <<"/", "u", "s", "e", "r", "s", "/", "4", "2">>

RoutedChoices == { UsersMe, UsersId }
Paths == { UsersMe, Users42 }

\* Requests for the paths, of identifier 1, addressed to the responder.
RoutedTo(paths) ==
  { RequestEnvelope(1, path, PayloadTiny, "client-1", "server-a", "core") :
      path \in paths }

RoutingInit ==
  /\ cfg \in Configs
  /\ Fresh

RoutingNext ==
  \/ \E envelope \in RoutedTo(Paths) :
       Room(envelope, MaxDeliveries) /\ Inject(envelope)
  \/ \E route \in RoutedChoices : Len(routes) < MaxTable /\ At(route)
  \/ \E envelope \in toServer : ServerReceive(envelope, FALSE)
  \/ \E id \in Ids : \E k \in 1..Len(execs[id]), outcome \in HandlerOutcomes :
       HandlerSettle(id, k, outcome, FALSE, FALSE)
  \/ ServerStop
  \/ \E envelope \in toClient : Lose(envelope)

RoutingSpec == RoutingInit /\ [][RoutingNext]_vars

(***************************************************************************)
(* Pattern routes: a responder whose routes are RegExp objects.            *)
(***************************************************************************)
PathA == <<"/", "a">>
PathAB == <<"/", "a", "/", "b">>

\* /^\/a$/, /^\/a/ and /^\/a$/g
PatternWhole == RegExp("^$", "", PathA)
PatternPrefix == RegExp("^", "", PathA)
PatternGlobal == RegExp("^$", "g", PathA)

PatternChoices == { PatternWhole, PatternPrefix, PatternGlobal }
PatternPaths == { PathA, PathAB }

PatternNext ==
  \/ \E envelope \in RoutedTo(PatternPaths) :
       Room(envelope, MaxDeliveries) /\ Inject(envelope)
  \/ \E route \in PatternChoices : Len(routes) < MaxRoutes /\ At(route)
  \/ \E envelope \in toServer : ServerReceive(envelope, FALSE)
  \/ \E id \in Ids : \E k \in 1..Len(execs[id]), outcome \in HandlerOutcomes :
       HandlerSettle(id, k, outcome, FALSE, FALSE)
  \/ ServerStop
  \/ \E envelope \in toClient : Lose(envelope)

PatternSpec == RoutingInit /\ [][PatternNext]_vars

\* The execution a delivery started.
Started(request) == execs'[request.id][Len(execs[request.id]) + 1]
Starts(request) == Len(execs'[request.id]) = Len(execs[request.id]) + 1

\* C19: when several registered routes match the path, the handler of the
\* first-registered matching route is invoked, for any sequence of
\* registrations; with "/users/me" before "/users/:id", /users/me runs the
\* first handler and /users/42 the second with parameters {id: "42"}.
C19_FirstMatchStep ==
  \A request \in toServer :
    request.type = "atbus:request" =>
      \A throws \in BOOLEAN :
        ServerReceive(request, throws) =>
          LET hits == { i \in 1..Len(routes) :
                          MatchRoute(routes[i], request.route).matched }
          IN  /\ Starts(request) <=> hits # {}
              /\ Starts(request) =>
                   /\ Started(request).entry \in hits
                   /\ \A i \in hits : Started(request).entry <= i
                   /\ Started(request).params =
                        MatchRoute(routes[Started(request).entry],
                                   request.route).params
              /\ routes = <<UsersMe, UsersId>> =>
                   /\ request.route = UsersMe =>
                        /\ Starts(request)
                        /\ Started(request).entry = 1
                        /\ Started(request).matchedRoute = UsersMe
                        /\ Started(request).params = {}
                   /\ request.route = Users42 =>
                        /\ Starts(request)
                        /\ Started(request).entry = 2
                        /\ Started(request).matchedRoute = UsersId
                        /\ Started(request).params = {<<<<"i", "d">>, <<"4", "2">>>>}
              /\ (routes = <<UsersId, UsersMe>> /\ request.route = UsersMe) =>
                   /\ Starts(request)
                   /\ Started(request).entry = 1
                   /\ Started(request).params = {<<<<"i", "d">>, <<"m", "e">>>>}

C20_PatternStep ==
  (Len(routes) = 1 /\ IsRegExp(routes[1])) =>
    \A request \in toServer :
      request.type = "atbus:request" =>
        \A throws \in BOOLEAN :
          ServerReceive(request, throws) =>
            (Starts(request) <=> request.route = Source(routes[1]))

C20_PatternMatchesWholePath == [][C20_PatternStep]_vars

(***************************************************************************)
(* Parameterized routes: a responder whose one route has parameter         *)
(* segments receives Requests for paths with as many, fewer and more       *)
(* segments, with and without empty segments.                              *)
(***************************************************************************)
\* "/u/:id", "/:id/:id", "/u/:", "//u/:id/", "/:a/x" and "/u/:__proto__"
ParamTail == <<"/", "u", "/", ":", "i", "d">>
ParamTwice == <<"/", ":", "i", "d", "/", ":", "i", "d">>
ParamNameless == <<"/", "u", "/", ":">>
ParamSlashes == <<"/", "/", "u", "/", ":", "i", "d", "/">>
ParamHead == <<"/", ":", "a", "/", "x">>
ParamProto == <<"/", "u", "/", ":">> \o ProtoKey

ParamChoices ==
  { ParamTail, ParamTwice, ParamNameless, ParamSlashes, ParamHead, ParamProto }

\* "/u/4", "/u//4", "/4/x", "/u", "/u/4/x", "/v/4" and "/u/:"
ParamPaths ==
  { <<"/", "u", "/", "4">>, <<"/", "u", "/", "/", "4">>,
    <<"/", "4", "/", "x">>, <<"/", "u">>,
    <<"/", "u", "/", "4", "/", "x">>, <<"/", "v", "/", "4">>,
    <<"/", "u", "/", ":">> }

ParamNext ==
  \/ \E envelope \in RoutedTo(ParamPaths) :
       Room(envelope, MaxExecs) /\ Inject(envelope)
  \/ \E route \in ParamChoices : Len(routes) < MaxRoutes /\ At(route)
  \/ \E envelope \in toServer : ServerReceive(envelope, FALSE)
  \/ \E id \in Ids : \E k \in 1..Len(execs[id]), outcome \in HandlerOutcomes :
       HandlerSettle(id, k, outcome, FALSE, FALSE)
  \/ ServerStop
  \/ \E envelope \in toClient : Lose(envelope)

ParamSpec == RoutingInit /\ [][ParamNext]_vars

\* The non-empty '/'-delimited segments of s, in order: its maximal runs of
\* characters other than '/'.
Runs(s) ==
  { r \in (1..Len(s)) \X (1..Len(s)) :
      /\ r[1] <= r[2]
      /\ \A k \in r[1]..r[2] : s[k] # "/"
      /\ r[1] = 1 \/ s[r[1] - 1] = "/"
      /\ r[2] = Len(s) \/ s[r[2] + 1] = "/" }
Segments(s) ==
  [n \in 1..Cardinality(Runs(s)) |->
     LET r == CHOOSE r \in Runs(s) :
                Cardinality({q \in Runs(s) : q[1] < r[1]}) = n - 1
     IN  SubSeq(s, r[1], r[2])]

IsParameter(segment) == segment[1] = ":"
HasParameters(descriptor) ==
  /\ ~IsRegExp(descriptor)
  /\ \E i \in 1..Len(Segments(descriptor)) : IsParameter(Segments(descriptor)[i])

\* The segment lists have the same length, every non-parameter segment of the
\* descriptor equals the path's, and no parameter segment has an empty name.
Fits(descriptor, path) ==
  LET ds == Segments(descriptor)
      ps == Segments(path)
  IN  /\ Len(ds) = Len(ps)
      /\ \A i \in 1..Len(ds) :
           IF IsParameter(ds[i]) THEN Len(ds[i]) > 1 ELSE ds[i] = ps[i]

\* The positions of the descriptor's parameter segments.
ParameterPositions(descriptor) ==
  { i \in 1..Len(Segments(descriptor)) : IsParameter(Segments(descriptor)[i]) }

\* C21 as stated: for a descriptor with parameter segments the match succeeds
\* exactly when the descriptor fits the path, and the result binds the name of
\* every parameter segment to the path segment at its position.
C21_EachStep ==
  (Len(routes) = 1 /\ HasParameters(routes[1])) =>
    \A request \in toServer :
      (request.type = "atbus:request" /\ ServerReceive(request, FALSE)) =>
        LET ds == Segments(routes[1])
            ps == Segments(request.route)
        IN  /\ Starts(request) <=> Fits(routes[1], request.route)
            /\ Starts(request) =>
                 Started(request).params =
                   { <<Tail(ds[i]), ps[i]>> : i \in ParameterPositions(routes[1]) }

C21_LastStep ==
  (Len(routes) = 1 /\ HasParameters(routes[1])) =>
    \A request \in toServer :
      (request.type = "atbus:request" /\ ServerReceive(request, FALSE)) =>
        LET ds == Segments(routes[1])
            ps == Segments(request.route)
            last == { i \in ParameterPositions(routes[1]) :
                        /\ Tail(ds[i]) # ProtoKey
                        /\ \A j \in ParameterPositions(routes[1]) :
                             ds[j] = ds[i] => j <= i }
        IN  /\ Starts(request) <=> Fits(routes[1], request.route)
            /\ Starts(request) =>
                 Started(request).params = { <<Tail(ds[i]), ps[i]>> : i \in last }

DispatchConfigs ==
  { [clientId |-> "client-1", targetId |-> "server-a", cBus |-> "core",
     cMaxPayloadBytes |-> SmallCeiling,
     serverId |-> "server-a", sBus |-> "core", acceptUnaddressed |-> FALSE,
     sMaxPayloadBytes |-> SmallCeiling,
     hasCanHandle |-> permission, allowed |-> allowed] :
      permission \in BOOLEAN, allowed \in {{RouteA}, {RouteB}} }

DispatchEnvelopes ==
  { RequestEnvelope(1, route, payload, "client-1", "server-a", "core") :
      route \in {RouteA, RouteB}, payload \in {PayloadTiny, PayloadOverCeiling} }
  \cup { CancelEnvelope(1, "client-1", "server-a", "core") }

DispatchInit ==
  /\ cfg \in DispatchConfigs
  /\ Fresh

DispatchNext ==
  \/ \E envelope \in DispatchEnvelopes :
       Room(envelope, MaxDeliveries) /\ Inject(envelope)
  \/ \E route \in RouteChoices : Len(routes) < MaxRoutes /\ At(route)
  \/ \E envelope \in toServer : ServerReceive(envelope, FALSE)
  \/ \E envelope \in toServer, error \in HandlerFailures :
       HandlerThrows(envelope, error)
  \/ \E id \in Ids : \E k \in 1..Len(execs[id]), outcome \in HandlerOutcomes,
        throws \in BOOLEAN :
       (throws => outcome.ok) /\ HandlerSettle(id, k, outcome, throws, FALSE)
  \/ ServerStop
  \/ \E envelope \in toClient : Lose(envelope)

DispatchSpec == DispatchInit /\ [][DispatchNext]_vars

\* What a responder that has not been stopped posts for a failure of the
\* handler of request: the failure Response the Error Mapper builds for the
\* request's route.
FailureReply(request, error) ==
  FailureEnvelope(request.id, MapError(error, request.route), cfg.serverId,
                  request.sourceId, ReplyBus(request))

\* One Response of the identifier went out, and it is reply.
PostedOne(id, reply) ==
  /\ toClient' = toClient \cup {reply}
  /\ replies'[id] = replies[id] + 1

\* The responder is as able to serve a Request after the step as before it.
StillServing == UNCHANGED <<sStarted, sClosed, sEndpoint, routes>>

\* C22: whether the matched handler returns, throws before it returns a
\* promise or rejects later, a responder that has not been stopped catches
\* the outcome: it posts the success, or in the error cases (the handler
\* failed, or the success could not be posted) the failure Response the
\* Error Mapper builds for the request's route; the in-flight entry of the
\* identifier is gone when the dispatch returns, and the responder goes on
\* serving.
C22_OutcomeStep ==
  /\ \A request \in toServer, error \in HandlerFailures :
       HandlerThrows(request, error) =>
         /\ PostedOne(request.id, FailureReply(request, error))
         /\ FailureReply(request, error).error.route = request.route
         /\ inFlight'[request.id] = 0
         /\ Starts(request) /\ Started(request).settled
         /\ StillServing
  /\ \A id \in Ids : \A k \in 1..Len(execs[id]) :
       LET request == execs[id][k].request
       IN  /\ \A error \in HandlerFailures :
                HandlerSettle(id, k, [ok |-> FALSE, error |-> error], FALSE, FALSE) =>
                  /\ ~sClosed => PostedOne(id, FailureReply(request, error))
                  /\ inFlight'[id] = 0
                  /\ StillServing
           /\ HandlerSettle(id, k, [ok |-> TRUE], FALSE, FALSE) =>
                /\ ~sClosed =>
                     PostedOne(id, SuccessEnvelope(id, request.payload,
                                     cfg.serverId, request.sourceId,
                                     ReplyBus(request)))
                /\ inFlight'[id] = 0
                /\ StillServing
           /\ HandlerSettle(id, k, [ok |-> TRUE], TRUE, FALSE) =>
                /\ ~sClosed => PostedOne(id, FailureReply(request, DataCloneError))
                /\ FailureReply(request, DataCloneError).error =
                     ErrorRecord(InternalError, request.route, FALSE)
                /\ inFlight'[id] = 0
                /\ StillServing

C22_HandlerOutcomeIsCaught == [][C22_OutcomeStep]_vars

\* A handler has failed, its failure has been answered, no in-flight entry is
\* left and a later Request of the identifier is being handled.
C22_Witness ==
  /\ ~sClosed
  /\ Len(execs[1]) = 2
  /\ execs[1][1].settled
  /\ ~execs[1][2].settled
  /\ inFlight[1] = 2
  /\ \E reply \in toClient :
       /\ ~reply.ok
       /\ reply.error = ErrorRecord(InternalError, RouteA, FALSE)

\* C23: a Cancel whose identifier has no entry in the in-flight table (the
\* request has completed, was never seen, or has yet to arrive) changes
\* nothing: no token is aborted, the table, the routes and the responder's
\* other state stay as they are and nothing is posted; a Request of the
\* identifier that arrives afterwards therefore meets the responder it would
\* have met without the Cancel, and starts its handler.
C23_StrayCancelStep ==
  /\ \A cancel \in toServer :
       (cancel.type = "atbus:cancel" /\ inFlight[cancel.id] = 0) =>
         (ServerReceive(cancel, FALSE) =>
            /\ UNCHANGED <<serverVars, toClient, cfg, clientVars>>
            /\ toServer' = toServer \ {cancel})
  /\ \A request \in toServer :
       (/\ request.type = "atbus:request"
        /\ ~sClosed
        /\ ~Refused(request.route)
        /\ PayloadSizeBytes(request.payload) <= cfg.sMaxPayloadBytes
        /\ FirstMatch(routes, request.route) # 0
        /\ ServerReceive(request, FALSE))
       => /\ Starts(request)
          /\ ~Started(request).aborted
          /\ inFlight'[request.id] = Len(execs'[request.id])

C23_StrayCancelIsIgnored == [][C23_StrayCancelStep]_vars

\* A Cancel of an identifier whose request has completed is about to be
\* delivered.
C23_Witness ==
  /\ sEndpoint.onmessage
  /\ inFlight[1] = 0
  /\ Len(execs[1]) = 1
  /\ execs[1][1].settled
  /\ ~execs[1][1].aborted
  /\ \E cancel \in toServer : cancel.type = "atbus:cancel" /\ cancel.id = 1

\* C24: cancellation is cooperative.  A Cancel delivered while its request is
\* in flight aborts the token and does nothing else: the in-flight entry
\* stays and nothing is posted.  When the handler of an aborted execution
\* settles at a responder that has not been stopped, the Response goes out
\* as for any execution (the success, or the mapped failure), and only then
\* is the in-flight entry removed.
C24_CooperativeStep ==
  /\ \A cancel \in toServer :
       (cancel.type = "atbus:cancel" /\ inFlight[cancel.id] # 0) =>
         (ServerReceive(cancel, FALSE) =>
            /\ execs'[cancel.id][inFlight[cancel.id]].aborted
            /\ ~execs'[cancel.id][inFlight[cancel.id]].settled
            /\ UNCHANGED <<inFlight, toClient, replies, routes>>)
  /\ \A id \in Ids : \A k \in 1..Len(execs[id]) :
       (execs[id][k].aborted /\ ~sClosed) =>
         LET request == execs[id][k].request
         IN  /\ HandlerSettle(id, k, [ok |-> TRUE], FALSE, FALSE) =>
                  /\ PostedOne(id, SuccessEnvelope(id, request.payload,
                                     cfg.serverId, request.sourceId,
                                     ReplyBus(request)))
                  /\ inFlight'[id] = 0
             /\ \A error \in HandlerFailures :
                  HandlerSettle(id, k, [ok |-> FALSE, error |-> error],
                                FALSE, FALSE) =>
                    /\ PostedOne(id, FailureReply(request, error))
                    /\ inFlight'[id] = 0

C24_CancellationIsCooperative == [][C24_CooperativeStep]_vars

\* The handler of an execution a Cancel had aborted has returned, and its
\* success has been posted.
C24_Witness ==
  /\ ~sClosed
  /\ Len(execs[1]) = 1
  /\ execs[1][1].aborted
  /\ execs[1][1].settled
  /\ inFlight[1] = 0
  /\ \E reply \in toClient : reply.ok /\ reply.id = 1

\* C25: stop() on a responder that is not closed marks it closed and not
\* started, detaches the receive handler, empties the route table, aborts the
\* token of every execution in the in-flight table, empties that table and
\* closes the endpoint, and posts nothing; stop() or close() on a closed
\* responder changes nothing, so the endpoint is closed at most once.
C25_StopStep ==
  /\ (~sClosed /\ ServerStop) =>
       /\ sClosed'
       /\ ~sStarted'
       /\ ~sEndpoint'.onmessage
       /\ sEndpoint'.closes = sEndpoint.closes + 1
       /\ routes' = <<>>
       /\ \A id \in Ids :
            /\ inFlight[id] # 0 => execs'[id][inFlight[id]].aborted
            /\ inFlight'[id] = 0
            /\ Len(execs'[id]) = Len(execs[id])
       /\ UNCHANGED <<toClient, replies>>
  /\ sClosed => ((ServerStop \/ ServerClose) => UNCHANGED vars)

C25_ClosedOnce == sEndpoint.closes <= 1

C27_ForbiddenStep ==
  \A request \in toServer :
    (/\ request.type = "atbus:request"
     /\ ~sClosed
     /\ MatchesAddressing(request.sourceId, request.targetId, request.bus)
     /\ cfg.hasCanHandle
     /\ request.route \notin cfg.allowed
     /\ ServerReceive(request, FALSE))
    => /\ PostedOne(request.id,
                    FailureEnvelope(request.id,
                                    ErrorRecord(Forbidden, request.route, FALSE),
                                    cfg.serverId, request.sourceId, request.bus))
       /\ UNCHANGED <<execs, inFlight, routes>>

C27_PermissionRefusal == [][C27_ForbiddenStep]_vars

\* A Request for a registered route was refused.
C27_Witness ==
  /\ cfg.hasCanHandle
  /\ cfg.allowed = {RouteB}
  /\ routes = <<RouteA>>
  /\ execs[1] = <<>>
  /\ \E reply \in toClient :
       /\ ~reply.ok
       /\ reply.error = ErrorRecord(Forbidden, RouteA, FALSE)

(***************************************************************************)
(* Round trips: calls for a registered and for an unregistered route       *)
(* travel to the responder, whose handlers return, and their Responses     *)
(* travel back, while another endpoint posts envelopes of an older and of  *)
(* a newer protocol version.                                               *)
(***************************************************************************)
OtherVersions == { ATBUS_PROTOCOL_VERSION - 1, ATBUS_PROTOCOL_VERSION + 1 }

\* Envelopes of identifier 1 that are well formed and well addressed but for
\* their version: toServer is TRUE for the Request and the Cancel, FALSE for
\* the success and the failure.
OtherVersionEnvelopes(toServerSide) ==
  IF toServerSide
  THEN { [e EXCEPT !.v = v] :
           e \in { RequestEnvelope(1, RouteA, PayloadTiny,
                                   "client-1", "server-a", "core"),
                   CancelEnvelope(1, "client-1", "server-a", "core") },
           v \in OtherVersions }
  ELSE { [e EXCEPT !.v = v] :
           e \in { SuccessEnvelope(1, PayloadTiny, "server-a", "client-1", "core"),
                   FailureEnvelope(1, ErrorRecord(InternalError, RouteA, FALSE),
                                   "server-a", "client-1", "core") },
           v \in OtherVersions }

\* Another endpoint posts an envelope of another version, one at a time.
InjectOtherVersion(envelope, toServerSide) ==
  /\ envelope \in OtherVersionEnvelopes(toServerSide)
  /\ \A e \in toServer \cup toClient : e.v = ATBUS_PROTOCOL_VERSION
  /\ IF toServerSide
     THEN /\ toServer' = toServer \cup {envelope}
          /\ UNCHANGED toClient
     ELSE /\ toClient' = toClient \cup {envelope}
          /\ UNCHANGED toServer
  /\ UNCHANGED <<cfg, clientVars, serverVars>>

RoundTripNext ==
  \/ \E route \in {RouteA, RouteB} :
       Call(route, PayloadOf(nextId), "none", FALSE, FALSE)
  \/ \E id \in Ids : ClientTimeout(id, FALSE)
  \/ \E envelope \in toClient : ClientReceive(envelope)
  \/ \E route \in RouteChoices : Len(routes) < MaxRoutes /\ At(route)
  \/ \E envelope \in toServer : ServerReceive(envelope, FALSE)
  \/ \E id \in Ids : \E k \in 1..Len(execs[id]) :
       HandlerSettle(id, k, [ok |-> TRUE], FALSE, FALSE)
  \/ \E toServerSide \in BOOLEAN :
       \E envelope \in OtherVersionEnvelopes(toServerSide) :
         InjectOtherVersion(envelope, toServerSide)

RoundTripSpec == Init /\ [][RoundTripNext]_vars

\* C26: an envelope of any kind whose version is not the current one is
\* ignored by both sides.  Delivered to the requester it settles no call and
\* leaves every timer armed; delivered to the responder it invokes no
\* handler, aborts no token and causes no reply.
C26_OtherVersionStep ==
  /\ \A envelope \in toClient :
       envelope.v # ATBUS_PROTOCOL_VERSION =>
         (ClientReceive(envelope) => UNCHANGED <<clientVars, serverVars, toServer>>)
  /\ \A envelope \in toServer :
       envelope.v # ATBUS_PROTOCOL_VERSION =>
         \A throws \in BOOLEAN :
           ServerReceive(envelope, throws) =>
             UNCHANGED <<serverVars, clientVars, toClient>>

C26_OtherVersionIsIgnored == [][C26_OtherVersionStep]_vars

\* A Cancel of another version is about to reach the responder while the
\* call of its identifier is pending and its handler is running.
C26_Witness ==
  /\ 1 \in pending
  /\ 1 \in timers
  /\ inFlight[1] = 1
  /\ ~execs[1][1].aborted
  /\ sEndpoint.onmessage
  /\ \E envelope \in toServer :
       /\ envelope.type = "atbus:cancel"
       /\ envelope.id = 1
       /\ envelope.v = ATBUS_PROTOCOL_VERSION + 1

\* C28: when no registered route matches the path of a Request that passed
\* the addressing filter, the permission predicate and the size check, the
\* responder answers with ROUTE_NOT_FOUND, retriable = false, invokes no
\* handler and creates no in-flight entry; the requester's call, when that
\* Response reaches it, rejects with that code.
C28_NoMatchStep ==
  /\ \A request \in toServer :
       (/\ request.v = ATBUS_PROTOCOL_VERSION
        /\ request.type = "atbus:request"
        /\ ~sClosed
        /\ MatchesAddressing(request.sourceId, request.targetId, request.bus)
        /\ ~Refused(request.route)
        /\ PayloadSizeBytes(request.payload) <= cfg.sMaxPayloadBytes
        /\ \A i \in 1..Len(routes) : ~MatchRoute(routes[i], request.route).matched
        /\ ServerReceive(request, FALSE))
       => /\ PostedOne(request.id,
                       FailureEnvelope(request.id,
                                       ErrorRecord(RouteNotFound, request.route, FALSE),
                                       cfg.serverId, request.sourceId, request.bus))
          /\ UNCHANGED <<execs, inFlight>>
  /\ \A response \in toClient :
       (/\ response.v = ATBUS_PROTOCOL_VERSION
        /\ ~response.ok
        /\ response.error.code = RouteNotFound
        /\ response.id \in pending
        /\ ClientReceive(response))
       => RejectedWith(promise'[response.id], RouteNotFound,
                       args[response.id].route, FALSE, response.id)

C28_RouteNotFound == [][C28_NoMatchStep]_vars

\* A call for "/b" at a responder whose only route is "/a" was rejected with
\* ROUTE_NOT_FOUND, and no handler ran for it.
C28_Witness ==
  \E id \in Ids :
    /\ routes = <<RouteA>>
    /\ args[id].route = RouteB
    /\ promise[id].st = "rejected"
    /\ promise[id].code = RouteNotFound
    /\ execs[id] = <<>>
    /\ replies[id] = 1

(***************************************************************************)
(* The Error Mapper: the handler of the one route fails with raw failures  *)
(* of every shape, and the responder posts what mapError makes of them.    *)
(***************************************************************************)
\* The code field of a raw failure: one of the nine codes, a string that is
\* none of them (one differs from TIMEOUT by its case only), a value that is
\* not a string, or no field.
RawCodes == AtBusErrorCode \cup {"E_CUSTOM", "timeout", NotAString, Undefined}

\* The retriable field: a boolean, a value that is not a boolean, or no field.
RawRetriables == {"true", "false", "<string>", Undefined}

\* Objects with each combination of fields, and a value that is not an
\* object (a string, a number, null, undefined), which has no field.
RawFailures ==
  [object : {TRUE}, code : RawCodes, retriable : RawRetriables,
   route : {NoRoute, RouteB}]
  \cup {Primitive}

MapperNext ==
  \/ \E envelope \in RoutedTo({RouteA}) :
       Room(envelope, MaxDeliveries) /\ Inject(envelope)
  \/ \E route \in RouteChoices : Len(routes) < MaxRoutes /\ At(route)
  \/ \E envelope \in toServer : ServerReceive(envelope, FALSE)
  \/ \E id \in Ids : \E k \in 1..Len(execs[id]), error \in RawFailures :
       HandlerSettle(id, k, [ok |-> FALSE, error |-> error], FALSE, FALSE)
  \/ \E envelope \in toClient : Lose(envelope)

MapperSpec == RoutingInit /\ [][MapperNext]_vars

\* The error record of the failure Response the step posts for identifier id
\* satisfies Good.
PostsError(id, Good(_)) ==
  /\ replies'[id] = replies[id] + 1
  /\ \E reply \in toClient' :
       /\ toClient' = toClient \cup {reply}
       /\ reply.id = id
       /\ ~reply.ok
       /\ Good(reply.error)

\* C29: the code mapError returns is always one of the nine codes: the code
\* field of the raw failure when the failure is an object and the field is
\* one of the nine, INTERNAL_ERROR for every other raw failure.
C29_CodeStep ==
  \A id \in Ids : \A k \in 1..Len(execs[id]) : \A error \in RawFailures :
    HandlerSettle(id, k, [ok |-> FALSE, error |-> error], FALSE, FALSE) =>
      LET Good(record) ==
            /\ record.code \in AtBusErrorCode
            /\ record.code = IF error.object /\ error.code \in AtBusErrorCode
                             THEN error.code ELSE InternalError
      IN  PostsError(id, Good)

C30_RetriableStep ==
  \A id \in Ids : \A k \in 1..Len(execs[id]) : \A error \in RawFailures :
    HandlerSettle(id, k, [ok |-> FALSE, error |-> error], FALSE, FALSE) =>
      LET Good(record) ==
            /\ record.retriable =
                 IF error.retriable \in {"true", "false"}
                 THEN error.retriable = "true"
                 ELSE record.code \in {Timeout, TransportError}
            /\ record.route = execs[id][k].request.route
      IN  PostsError(id, Good)

C30_RetriableAndRoute == [][C30_RetriableStep]_vars

\* A TIMEOUT failure flagged not retriable by its own field went out as such,
\* for the route served.
C30_Witness ==
  /\ Len(execs[1]) = 1
  /\ execs[1][1].settled
  /\ \E reply \in toClient :
       /\ ~reply.ok
       /\ reply.error = ErrorRecord(Timeout, RouteA, FALSE)

(***************************************************************************)
(* The requester's races: a transition that comes after the entry is gone  *)
(***************************************************************************)
\* The entry of call id was registered and has been removed.
Removed(id) == Issued(id) /\ id \notin pending

\* C31: once the pending entry of a call has been removed, no later step
\* calls postMessage for it, calls resolve or reject for it, or changes the
\* pending table's view of it: the log of the call's postMessage calls and
\* completion transitions, its promise and its absence from the table all
\* stay as they are.
C31_LateStep ==
  \A id \in Ids :
    Removed(id) =>
      /\ log'[id] = log[id]
      /\ promise'[id] = promise[id]
      /\ id \notin pending'
      /\ Cancel(id) \in toServer' => Cancel(id) \in toServer

C31_LateTransitionIsNoOp == [][C31_LateStep]_vars

(***************************************************************************)
(* The requester on a broadcast medium: Responses posted by other          *)
(* endpoints, with every combination of addressing fields, reach a         *)
(* requester constructed with or without a fixed target and a bus.         *)
(***************************************************************************)
RequesterConfigs ==
  { [clientId |-> "client-1", targetId |-> target, cBus |-> bus,
     cMaxPayloadBytes |-> SmallCeiling,
     serverId |-> "server-a", sBus |-> "core", acceptUnaddressed |-> FALSE,
     sMaxPayloadBytes |-> SmallCeiling, hasCanHandle |-> FALSE, allowed |-> {}] :
      target \in {Undefined, "server-a"}, bus \in {Undefined, "core"} }

\* What the other endpoints post: a success with every addressing (a target
\* may be the empty string, which the guard lets through), and one failure,
\* for each identifier.
Replies ==
  { SuccessEnvelope(id, PayloadTiny, sourceId, targetId, bus) :
      id \in Ids, sourceId \in {"server-a", "server-b", Undefined},
      targetId \in {"client-1", "client-2", "", Undefined}, bus \in Buses }
  \cup
  { FailureEnvelope(id, ErrorRecord(InternalError, RouteA, FALSE),
                    "server-a", "client-1", "core") : id \in Ids }

\* Another endpoint posts a Response on the medium.
InjectReply(envelope) ==
  /\ toClient = {}
  /\ toClient' = {envelope}
  /\ UNCHANGED <<cfg, clientVars, toServer, serverVars>>

RequesterNext ==
  \/ \E signal \in {"none", "idle"} :
       Call(RouteA, PayloadOf(nextId), signal, FALSE, FALSE)
  \/ \E id \in Ids : ClientTimeout(id, FALSE)
  \/ \E id \in Ids : AbortSignal(id, FALSE)
  \/ \E envelope \in Replies : InjectReply(envelope)
  \/ \E envelope \in toClient : ClientReceive(envelope)

RequesterInit == cfg \in RequesterConfigs /\ Fresh

RequesterSpec == RequesterInit /\ [][RequesterNext]_vars

\* C32: a Response delivered for an identifier that has no pending entry
\* (the call timed out, was aborted, was answered before, or was never made)
\* is ignored: no promise, no timer and no entry changes, and nothing is
\* posted.
C32_NoEntryStep ==
  \A envelope \in toClient :
    (IsAtBusResponse(envelope) /\ envelope.id \notin pending) =>
      (ClientReceive(envelope) => UNCHANGED <<clientVars, toServer, serverVars>>)

C32_ResponseWithoutEntryIsIgnored == [][C32_NoEntryStep]_vars

\* A Response the filter lets through is about to be delivered for a call
\* that was answered before, while another call is pending.
C32_Witness ==
  /\ cEndpoint.onmessage
  /\ promise[1].st = "resolved"
  /\ 1 \notin pending
  /\ 2 \in pending
  /\ \E envelope \in toClient :
       /\ IsAtBusResponse(envelope)
       /\ ClientAccepts(envelope)
       /\ envelope.id = 1

(***************************************************************************)
(* The in-flight table under repeated identifiers                          *)
(***************************************************************************)
\* C33: at a responder that has not been stopped, every handler execution
\* that has not settled is the one the in-flight table holds for its
\* identifier, so that a Cancel accepted for the identifier aborts it,
\* whatever Requests were accepted and whatever executions settled since it
\* was invoked.
C33_RunningHandlerOwnsItsEntry ==
  ~sClosed =>
    \A id \in Ids : \A k \in 1..Len(execs[id]) :
      ~execs[id][k].settled => inFlight[id] = k

(***************************************************************************)
(* The requester's filter on inbound Responses                             *)
(***************************************************************************)
\* The response names another requester as its target (a name is a string
\* that is not empty).
ForAnother(response) ==
  Truthy(response.targetId) /\ response.targetId # cfg.clientId

\* The requester has a fixed target and the response names another source.
FromAnother(response) ==
  /\ Truthy(cfg.targetId)
  /\ Truthy(response.sourceId)
  /\ response.sourceId # cfg.targetId

\* The requester has a bus and the response names another bus.
OnAnotherBus(response) ==
  /\ Truthy(cfg.cBus)
  /\ Truthy(response.bus)
  /\ response.bus # cfg.cBus

\* C34: a Response whose target id is present and is not the requester's id,
\* or whose source id is present and is not the requester's fixed target, or
\* whose bus is present and is not the requester's bus, is ignored: the call
\* of its identifier stays pending with its timer armed, and nothing else
\* changes.
C34_FilterStep ==
  \A envelope \in toClient :
    (/\ IsAtBusResponse(envelope)
     /\ ForAnother(envelope) \/ FromAnother(envelope) \/ OnAnotherBus(envelope)) =>
      (ClientReceive(envelope) => UNCHANGED <<clientVars, toServer, serverVars>>)

C34_MisaddressedResponseIsIgnored == [][C34_FilterStep]_vars

\* A Response from another responder, with the requester's id and bus, is
\* about to be delivered while the call of its identifier is pending.
C34_Witness ==
  /\ cEndpoint.onmessage
  /\ cfg.targetId = "server-a"
  /\ 1 \in pending
  /\ 1 \in timers
  /\ \E envelope \in toClient :
       /\ IsAtBusResponse(envelope)
       /\ envelope.id = 1
       /\ envelope.sourceId = "server-b"
       /\ envelope.targetId = cfg.clientId
       /\ envelope.bus = cfg.cBus

(***************************************************************************)
(* The addressing of the responder's replies                               *)
(***************************************************************************)
\* The name of the request's bus, or the responder's when it has none.
EchoedBus(request) ==
  IF request.bus = Undefined THEN cfg.sBus ELSE request.bus

\* Every envelope the step posts is a Response to the request from the
\* responder to the request's source, on the given bus.
RepliesTo(request, bus) ==
  \A reply \in toClient' \ toClient :
    /\ reply.type = "atbus:response"
    /\ reply.id = request.id
    /\ reply.sourceId = cfg.serverId
    /\ reply.targetId = request.sourceId
    /\ reply.bus = bus

\* The Request is answered on delivery, without a handler.
RefusedOnDelivery(request) ==
  /\ IsAtBusRequest(request)
  /\ Len(execs'[request.id]) = Len(execs[request.id])

\* Every Response, of a handler or not, is on the request's bus or, when the
\* request has none, on the responder's.
C35_FallbackStep ==
  /\ \A request \in toServer : \A throws \in BOOLEAN :
       ServerReceive(request, throws) => RepliesTo(request, EchoedBus(request))
  /\ \A id \in Ids : \A k \in 1..Len(execs[id]) :
       (~execs[id][k].settled /\ execs'[id][k].settled) =>
         RepliesTo(execs[id][k].request, EchoedBus(execs[id][k].request))

C35_EveryReplyFallsBack == [][C35_FallbackStep]_vars

\* C35: every Response the responder posts carries the responder's id as
\* source and the request's source id as target.  The Response of a handler
\* (its success or its mapped failure) is on the request's bus or, when the
\* request has none, on the responder's; a refusal (forbidden, payload too
\* large, route not found) carries the request's bus field as it is, none
\* when the request has none.
C35_EchoStep ==
  /\ \A request \in toServer : \A throws \in BOOLEAN :
       (ServerReceive(request, throws) /\ RefusedOnDelivery(request)) =>
         RepliesTo(request, request.bus)
  /\ \A id \in Ids : \A k \in 1..Len(execs[id]) :
       (~execs[id][k].settled /\ execs'[id][k].settled) =>
         RepliesTo(execs[id][k].request, EchoedBus(execs[id][k].request))

C35_RepliesEchoTheBus == [][C35_EchoStep]_vars

\* The responder on bus "core" has refused a Request that has no bus: the
\* refusal names the responder and the request's source, and has no bus.
C35_Witness ==
  /\ cfg.sBus = "core"
  /\ replies[1] = 1
  /\ execs[1] = <<>>
  /\ \E reply \in toClient :
       /\ ~reply.ok
       /\ reply.error.code = RouteNotFound
       /\ reply.sourceId = cfg.serverId
       /\ reply.targetId = "c1"
       /\ reply.bus = Undefined

(***************************************************************************)
(* Termination of calls.  The timer armed by call() is a setTimeout: its   *)
(* callback runs unless clearTimeout is called first, which is weak        *)
(* fairness of the timeout action of each identifier.  Nothing else is     *)
(* assumed: the medium may lose every envelope, the responder may be       *)
(* another one than the requester's target, and it may stop at any time.   *)
(***************************************************************************)
TimerConfigs ==
  { [clientId |-> "client-1", targetId |-> target, cBus |-> "core",
     cMaxPayloadBytes |-> SmallCeiling,
     serverId |-> "server-a", sBus |-> "core", acceptUnaddressed |-> FALSE,
     sMaxPayloadBytes |-> SmallCeiling, hasCanHandle |-> FALSE, allowed |-> {}] :
      target \in {"server-a", "server-b"} }

\* Bound on the calls whose termination is followed.
MaxTimed == 1

TimerNext ==
  \/ \E signal \in {"none", "idle"} :
       nextId <= MaxTimed /\ Call(RouteA, PayloadOf(nextId), signal, FALSE, FALSE)
  \/ \E id \in Ids, cancelThrows \in BOOLEAN : ClientTimeout(id, cancelThrows)
  \/ \E id \in Ids : AbortSignal(id, FALSE)
  \/ \E envelope \in toClient : ClientReceive(envelope)
  \/ ClientStop({})
  \/ \E route \in RouteChoices : Len(routes) < MaxRoutes /\ At(route)
  \/ \E envelope \in toServer : ServerReceive(envelope, FALSE)
  \/ \E id \in Ids : \E k \in 1..Len(execs[id]) :
       HandlerSettle(id, k, [ok |-> TRUE], FALSE, FALSE)
  \/ ServerStop
  \/ \E envelope \in toServer \cup toClient : Lose(envelope)

TimerFires(id) == \E cancelThrows \in BOOLEAN : ClientTimeout(id, cancelThrows)

TimerInit == cfg \in TimerConfigs /\ Fresh

TimerSpec ==
  /\ TimerInit
  /\ [][TimerNext]_vars
  /\ \A id \in Ids : WF_vars(TimerFires(id))

\* C36: every call that registers a pending entry is settled in the end, and
\* its entry removed, provided only that an armed timer fires unless it is
\* cleared; whether the Request, the Response or the Cancel is lost, the
\* responder ignores the Request for its addressing, or the responder is
\* stopped while the handler runs.
C36_EveryCallSettles ==
  \A id \in Ids : (id \in pending) ~> (id \notin pending /\ Settled(id))

\* The Request of call 1 never reached a handler and the responder has been
\* stopped; the call was settled by its timer.
C36_Witness ==
  /\ execs[1] = <<>>
  /\ sClosed
  /\ 1 \notin pending
  /\ promise[1] = TimeoutError(1)

(***************************************************************************)
(* Timers and entries                                                      *)
(***************************************************************************)
\* C37: the identifiers with an armed timer are the identifiers with a
\* pending entry, in every reachable state of the requester: a timer is armed
\* with its entry, and the step that removes an entry (a response, an abort,
\* a failed send, stop(), or the timer's own callback) leaves no timer armed
\* for it, so no timer fires for an identifier without an entry.
C37_TimersAreTheEntries == timers = pending

\* Call 1 was answered and its timer cleared while call 2 is pending with its
\* timer armed.
C37_Witness ==
  /\ promise[1].st = "resolved"
  /\ 1 \notin pending
  /\ 1 \notin timers
  /\ 2 \in pending
  /\ 2 \in timers

(***************************************************************************)
(* A responder shared by several endpoints of one medium: constructed with *)
(* or without autoStart, started, stopped and started again, while         *)
(* Requests of one requester and Cancels of every endpoint reach it.       *)
(***************************************************************************)
SharedEnvelopes ==
  { RequestEnvelope(1, RouteA, PayloadTiny, "client-1", "server-a", "core") }
  \cup
  { CancelEnvelope(id, sourceId, "server-a", "core") :
      id \in Ids, sourceId \in {"client-1", "client-2", "server-a"} }

SharedInit ==
  /\ cfg \in Configs
  /\ cStarted = TRUE
  /\ cClosed = FALSE
  /\ cEndpoint = Attach(NewEndpoint)
  /\ nextId = 1
  /\ pending = {}
  /\ timers = {}
  /\ promise = [id \in Ids |-> NoPromise]
  /\ args = [id \in Ids |-> NoArgs]
  /\ aborted = {}
  /\ listening = {}
  /\ log = [id \in Ids |-> <<>>]
  /\ lastCall = [kind |-> "none"]
  /\ toServer = {}
  /\ toClient = {}
  /\ sStarted \in BOOLEAN      \* the autoStart option
  /\ sClosed = FALSE
  /\ sEndpoint = IF sStarted THEN Attach(NewEndpoint) ELSE NewEndpoint
  /\ routes = <<>>
  /\ inFlight = [id \in Ids |-> 0]
  /\ execs = [id \in Ids |-> <<>>]
  /\ replies = [id \in Ids |-> 0]

SharedNext ==
  \/ \E envelope \in SharedEnvelopes :
       Room(envelope, MaxExecs) /\ Inject(envelope)
  \/ \E route \in RouteChoices : Len(routes) < MaxRoutes /\ At(route)
  \/ ServerStart
  \/ \E envelope \in toServer : ServerReceive(envelope, FALSE)
  \/ \E id \in Ids : \E k \in 1..Len(execs[id]), outcome \in HandlerOutcomes :
       HandlerSettle(id, k, outcome, FALSE, FALSE)
  \/ ServerStop
  \/ \E envelope \in toServer \cup toClient : Lose(envelope)

SharedSpec == SharedInit /\ [][SharedNext]_vars

\* C38: a responder whose stop() has run has no receive handler attached and
\* is not started, whatever is called on it afterwards (start() included);
\* from then on no step invokes a handler, aborts a token or posts an
\* envelope, and a handler that was running at shutdown posts no Response
\* when it settles.
C38_Detached == sClosed => (~sEndpoint.onmessage /\ ~sStarted)

C38_SilentStep ==
  sClosed =>
    /\ toClient' \subseteq toClient
    /\ replies' = replies
    /\ inFlight' = inFlight
    /\ \A id \in Ids :
         /\ Len(execs'[id]) = Len(execs[id])
         /\ \A k \in 1..Len(execs[id]) :
              execs'[id][k].aborted = execs[id][k].aborted

C38_StoppedResponderIsSilent == []C38_Detached /\ [][C38_SilentStep]_vars

\* The handler of Request 1 was running when the responder was stopped; it
\* has settled since, and no Response went out.
C38_Witness ==
  /\ sClosed
  /\ Len(execs[1]) = 1
  /\ execs[1][1].aborted
  /\ execs[1][1].settled
  /\ replies[1] = 0
  /\ toClient = {}

\* An execution of identifier id that was not aborted is aborted by the step.
Aborts(id, k) == ~execs[id][k].aborted /\ execs'[id][k].aborted

\* The step is the stop() that shuts the responder down.
Stops == ~sClosed /\ sClosed'

\* The step delivers a Cancel of the identifier that satisfies Sent.
CancelDelivered(id, Sent(_)) ==
  \E cancel \in toServer :
    /\ IsAtBusCancel(cancel)
    /\ cancel.id = id
    /\ Sent(cancel)
    /\ ServerReceive(cancel, FALSE)

\* An execution is aborted only by stop() or by a Cancel of its identifier
\* whose source is the source of its Request.
C39_OwnSourceStep ==
  \A id \in Ids : \A k \in 1..Len(execs[id]) :
    Aborts(id, k) =>
      LET FromRequester(cancel) ==
            cancel.sourceId = execs[id][k].request.sourceId
      IN  Stops \/ CancelDelivered(id, FromRequester)

C39_AbortedByItsRequesterOnly == [][C39_OwnSourceStep]_vars

\* C39: an execution is aborted only by the responder's stop() or by a
\* Cancel of its identifier that is addressed to the responder and is not
\* from the responder itself; the Cancel's source need not be the source of
\* the Request, so a Cancel of another requester with the same identifier
\* aborts it.
C39_AddressedStep ==
  \A id \in Ids : \A k \in 1..Len(execs[id]) :
    Aborts(id, k) =>
      LET Addressed(cancel) ==
            /\ cancel.sourceId # cfg.serverId
            /\ cancel.targetId = cfg.serverId
      IN  /\ inFlight[id] = k
          /\ Stops \/ CancelDelivered(id, Addressed)

C39_AbortedByStopOrAddressedCancel == [][C39_AddressedStep]_vars

\* A Cancel of client-2 for identifier 1 is about to be delivered while the
\* handler of client-1's Request 1 is running, not aborted.
C39_Witness ==
  /\ sEndpoint.onmessage
  /\ inFlight[1] = 1
  /\ execs[1][1].request.sourceId = "client-1"
  /\ ~execs[1][1].aborted
  /\ CancelEnvelope(1, "client-2", "server-a", "core") \in toServer

\* C40: the requester applies the responder's bus rules to Responses: one
\* constructed with a bus settles no call on a Response that has no bus, and
\* one constructed without a bus settles no call on a Response that has a
\* bus.
C40_MirrorStep ==
  \A envelope \in toClient :
    (/\ IsAtBusResponse(envelope)
     /\ Truthy(cfg.cBus) # Truthy(envelope.bus)) =>
      (ClientReceive(envelope) => UNCHANGED <<pending, timers, promise, log>>)

C40_RequesterMirrorsBusRules == [][C40_MirrorStep]_vars

====
